---- MODULE Spec2Model ----
(***************************************************************************)
(* Model of the chat engine of the Perplexity AI assistant extension       *)
(* (src/src/chatProvider.ts, class PerplexityCustomChatProvider).          *)
(*                                                                         *)
(* Text is a sequence of one-character strings, so that trimming,          *)
(* truncation and concatenation are computed as the code computes them.    *)
(* The extension host is single threaded: every action below is one        *)
(* run-to-completion piece of a handler, from one await to the next.       *)
(* The webview dispatcher does not wait for a handler before it starts the *)
(* next one, so handleUserMessage calls overlap at their awaits.           *)
(*                                                                         *)
(* An abort() marks its controller aborted; the rejection it causes in a   *)
(* call that awaits the transport is delivered to that call as a step of   *)
(* its own (AbortError), which may follow at once or after other steps.    *)
(***************************************************************************)
EXTENDS Integers, Sequences, FiniteSets, TLC

(* ---------------------------------------------------------------- bounds *)
\* number of sendMessage requests the webview posts in one behaviour
MaxReq == 2
\* number of newChat / selectSession / clearHistory / removeContext requests
MaxOps == 1

Req == 1..MaxReq

\* number of calls of addFileToContext and handleAutoDetectContext
MaxCalls == 2

Call == 1..MaxCalls

\* number of calls of provideInlineCompletionItems
MaxCompletions == 3

CompletionCall == 1..MaxCompletions

\* number of messages between the chat webview and the extension
MaxEvents == 4

(* ------------------------------------------------------ string literals *)
S_ContextHdr == <<"C", "o", "n", "t", "e", "x", "t", ":", "\n">>
S_UserQuestion == <<"\n", "\n", "U", "s", "e", "r", " ", "Q", "u", "e", "s", "t", "i", "o", "n", ":", " ">>
S_BlankLine == <<"\n", "\n">>
S_File == <<"F", "i", "l", "e", ":", " ">>
\* the three backquotes of a code fence; a backquote cannot be written inside
\* a TLA+ string, so the character is written "BQ"
S_Fence == <<"BQ", "BQ", "BQ">>
S_NL == <<"\n">>
S_SelFrom == <<"S", "e", "l", "e", "c", "t", "e", "d", " ", "c", "o", "d", "e", " ", "f", "r", "o", "m", " ">>
S_Lines == <<" ", "(", "l", "i", "n", "e", "s", " ">>
S_Dash == <<"-">>
S_LinesEnd == <<")", ":", "\n">>
S_ContextColon == <<"C", "o", "n", "t", "e", "x", "t", ":", " ">>
S_NoResponse == <<"N", "o", " ", "r", "e", "s", "p", "o", "n", "s", "e", " ", "r", "e", "c", "e", "i", "v", "e", "d">>
S_Ellipsis == <<".", ".", ".">>

\* title length limit of addUserMessage
TitleMax == 50

(* ------------------------------------------------------- input alphabets *)
T_hi == <<"h", "i">>
T_blank == <<" ", "\n">>
T_empty == <<>>
T_ok == <<"o", "k">>

\* the texts the webview submits (data.value of sendMessage)
Texts == {T_hi, T_blank, T_empty}

\* the bodies response.json() can resolve to
\* (content: choices[0].message.content is that string; emptyChoices:
\* choices is [])
Datas == { [kind |-> "content", content |-> T_ok],
           [kind |-> "content", content |-> <<>>],
           [kind |-> "emptyChoices", content |-> <<>>] }

\* non-success HTTP statuses of the transport
Statuses == {401}

E_NoKey == "API key not configured. Please set up your Perplexity API key."
E_NoSignal == "Cannot read properties of undefined (reading 'signal')"
E_Fetch == "fetch failed"
E_Json == "Unexpected token in JSON"

StatusMessage(status) ==
  CASE status = 401 -> "API request failed: 401"
    [] status = 500 -> "API request failed: 500"
    [] OTHER -> "API request failed"

(* ------------------------------------------------------- text functions *)
IsWhitespace(c) == c \in {" ", "\n", "\t", "\r"}

RECURSIVE TrimStart(_)
TrimStart(s) ==
  IF s = <<>> THEN <<>>
  ELSE IF IsWhitespace(Head(s)) THEN TrimStart(Tail(s)) ELSE s

RECURSIVE TrimEnd(_)
TrimEnd(s) ==
  IF s = <<>> THEN <<>>
  ELSE IF IsWhitespace(s[Len(s)]) THEN TrimEnd(SubSeq(s, 1, Len(s) - 1)) ELSE s

\* String.prototype.trim
Trim(s) == TrimEnd(TrimStart(s))

Digits == <<"0", "1", "2", "3", "4", "5", "6", "7", "8", "9">>

\* template-literal rendering of a non-negative number
RECURSIVE NumberToString(_)
NumberToString(n) ==
  IF n < 10 THEN <<Digits[n + 1]>>
  ELSE NumberToString(n \div 10) \o <<Digits[(n % 10) + 1]>>

\* Array.prototype.join
RECURSIVE Join(_, _)
Join(parts, sep) ==
  IF parts = <<>> THEN <<>>
  ELSE IF Len(parts) = 1 THEN parts[1]
  ELSE parts[1] \o sep \o Join(Tail(parts), sep)

(* ------------------------------------------------------- context items *)
FileItem(id, name, path, language, content) ==
  [id |-> id, type |-> "file", name |-> name, path |-> path,
   language |-> language, content |-> content,
   fileName |-> <<>>, startLine |-> 0, endLine |-> 0]

SelectionItem(id, fileName, startLine, endLine, content) ==
  [id |-> id, type |-> "selection", name |-> <<>>, path |-> <<>>,
   language |-> <<>>, content |-> content,
   fileName |-> fileName, startLine |-> startLine, endLine |-> endLine]

\* one context string of handleUserMessage
ContextString(ctx) ==
  CASE ctx.type = "file" ->
         S_File \o ctx.name \o S_NL \o S_Fence \o ctx.language \o S_NL
           \o ctx.content \o S_NL \o S_Fence
    [] ctx.type = "selection" ->
         S_SelFrom \o ctx.fileName \o S_Lines \o NumberToString(ctx.startLine)
           \o S_Dash \o NumberToString(ctx.endLine) \o S_LinesEnd
           \o S_Fence \o S_NL \o ctx.content \o S_NL \o S_Fence
    [] OTHER -> S_ContextColon \o ctx.name \o S_NL \o ctx.content

\* FullMessage with a slip: the blocks are joined by a single line break
FullMessage_JoinsByNewline(context, message) ==
  IF Len(context) > 0
    THEN S_ContextHdr
           \o Join([i \in 1..Len(context) |-> ContextString(context[i])], S_NL)
           \o S_UserQuestion \o message
    ELSE message

\* the prompt handed to queryPerplexityAPI
FullMessage(context, message) ==
  IF Len(context) > 0
    THEN S_ContextHdr
           \o Join([i \in 1..Len(context) |-> ContextString(context[i])], S_BlankLine)
           \o S_UserQuestion \o message
    ELSE message

(* ------------------------------------------------------- session store *)
\* Array.prototype.find on the session id: the index of the first session
\* with that id, 0 when there is none
FindSession(sess, id) ==
  IF \E i \in 1..Len(sess) : sess[i].id = id
    THEN CHOOSE i \in 1..Len(sess) :
           sess[i].id = id /\ \A j \in 1..(i - 1) : sess[j].id # id
    ELSE 0

\* TitleOf with a slip: a message of exactly TitleMax characters is cut too
TitleOf_CutsAtMax(content) ==
  IF Len(content) >= TitleMax
    THEN SubSeq(content, 1, TitleMax) \o S_Ellipsis
    ELSE content

\* the title derived from a message
TitleOf(content) ==
  IF Len(content) > TitleMax
    THEN SubSeq(content, 1, TitleMax) \o S_Ellipsis
    ELSE content

\* The store is the record [sessions, cur, nextId]: the _sessions array,
\* _currentSessionId (0 is undefined) and the next id the generator
\* Date.now()+Math.random() yields (ids are taken to be unique).
ensureCurrentSession(st) ==
  IF st.cur = 0 \/ FindSession(st.sessions, st.cur) = 0
    THEN [st EXCEPT !.cur = st.nextId, !.nextId = st.nextId + 1]
    ELSE st

\* addUserMessage with a slip: the session the message goes to is moved to
\* the front of the list
addUserMessage_MovesToFront(st, content, turn) ==
  LET s1 == ensureCurrentSession(st)
      i == FindSession(s1.sessions, s1.cur)
      old == IF i = 0
               THEN [id |-> s1.cur, title |-> TitleOf(content), messages |-> <<>>]
               ELSE s1.sessions[i]
      rest == IF i = 0 THEN s1.sessions
              ELSE SubSeq(s1.sessions, 1, i - 1) \o SubSeq(s1.sessions, i + 1, Len(s1.sessions))
      msgs == Append(old.messages, [role |-> "user", content |-> content, turn |-> turn])
      title == IF Len(msgs) = 1 THEN TitleOf(content) ELSE old.title
  IN [s1 EXCEPT !.sessions = <<[old EXCEPT !.messages = msgs, !.title = title]>> \o rest]

\* turn is the request on whose behalf the message is appended (0: loaded
\* from storage); it is bookkeeping of the model, the code stores a timestamp
addUserMessage(st, content, turn) ==
  LET s1 == ensureCurrentSession(st)
      i == FindSession(s1.sessions, s1.cur)
      base == IF i = 0
                THEN <<[id |-> s1.cur, title |-> TitleOf(content), messages |-> <<>>]>>
                       \o s1.sessions
                ELSE s1.sessions
      j == IF i = 0 THEN 1 ELSE i
      msgs == Append(base[j].messages,
                     [role |-> "user", content |-> content, turn |-> turn])
      title == IF Len(msgs) = 1 THEN TitleOf(content) ELSE base[j].title
  IN [s1 EXCEPT !.sessions =
        [base EXCEPT ![j] = [@ EXCEPT !.messages = msgs, !.title = title]]]

\* addAssistantMessage with a slip: the fallback text is not saved
addAssistantMessage_SkipsFallback(st, content, turn) ==
  LET s1 == ensureCurrentSession(st)
      i == FindSession(s1.sessions, s1.cur)
  IN IF i = 0 \/ content = S_NoResponse
       THEN s1
       ELSE [s1 EXCEPT !.sessions[i].messages =
               Append(@, [role |-> "assistant", content |-> content, turn |-> turn])]

addAssistantMessage(st, content, turn) ==
  LET s1 == ensureCurrentSession(st)
      i == FindSession(s1.sessions, s1.cur)
  IN IF i = 0
       THEN s1
       ELSE [s1 EXCEPT !.sessions[i].messages =
               Append(@, [role |-> "assistant", content |-> content, turn |-> turn])]

\* data.choices[0]?.message?.content || "No response received"
ResponseContent(data) ==
  IF data.kind = "content" /\ data.content # <<>> THEN data.content ELSE S_NoResponse

(* ---------------------------------------------------------------- state *)
VARIABLES
  sessions,          \* _sessions
  currentSessionId,  \* _currentSessionId, 0 when undefined
  nextId,            \* the next fresh session id
  abortController,   \* _abortController: 0 when undefined, else the request
                     \* whose handleUserMessage created the controller
  aborted,           \* the controllers on which abort() has been called
  attachedContext,   \* attachedContext
  storage,           \* globalState["perplexity-chat-history"]
  pc,                \* per request: where its handleUserMessage call stands
  message,           \* per request: the argument of handleUserMessage
  signal,            \* per request, while its call runs: the controller whose
                     \* signal fetch got (0: none yet)
  prompt,            \* per request, while its call runs: the prompt handed
                     \* to queryPerplexityAPI
  outcome,           \* per request: how its handleUserMessage call ended
  posted,            \* the messages posted to the webview: posted[r] is the
                     \* sequence, in posting order, of those posted by the
                     \* handleUserMessage call of request r or by a
                     \* stopGeneration that aborts the controller of r, and
                     \* posted[0] that of all the others
  stopped,           \* the requests whose controller stopGeneration aborted
  sent,              \* the requests whose prompt was handed to fetch
  ops                \* number of session/context requests handled so far

\* What the model notes about the turns where a property speaks of the
\* past; the code has no field for it, and only NotedSpec writes it
VARIABLES
  askedIn,           \* per request: _currentSessionId when its
                     \* handleUserMessage call started (0: undefined, or the
                     \* call has not started)
  cleared            \* the requests whose handleUserMessage call was running
                     \* when clearHistory ran

\* A response stream being read, by handleStreamingResponse of the chat
\* provider or by queryPerplexityAPIStream of the "ask with streaming"
\* command
VARIABLES
  decoder,           \* the function that reads the stream: "chat", "command",
                     \* or "none" while no stream is read
  frames,            \* the frames the server writes to the stream
  unread,            \* the bytes of the stream not yet handed out by read()
  reads,             \* number of chunks read() has handed out
  streaming,         \* "idle", "reading", "ended" (read() said done) or
                     \* "aborted" (the call threw)
  fullResponse,      \* fullResponse (chat), responseContent (command)
  streamPosted       \* chat: the messages posted to the webview; command:
                     \* the calls of onChunk and onComplete, as messages

\* The calls of addFileToContext and handleAutoDetectContext
VARIABLES
  calls              \* per call: which function it is ("none" before it is
                     \* made), the path it was given, and whether it is
                     \* "idle", at its "await", or "done"

\* The extension hosts that have run the extension
VARIABLES
  restarts           \* number of times a new extension host has started

\* The inline completion provider (PerplexityCompletionProvider)
VARIABLES
  debounceTimer,     \* debounceTimer: 0 when undefined, else the call of
                     \* provideInlineCompletionItems that set the timer
  completions        \* per call: where it stands, what its promise was
                     \* resolved with ("pending" while it is not), and the
                     \* text of the item when it was resolved with an item

\* The script of the chat webview
VARIABLES
  isGenerating,      \* isGenerating
  isTyping,          \* isTyping
  viewLog            \* what the webview posted to the extension ("out") and
                     \* what it got from it ("in"), in order, and the stop
                     \* actions of the user ("stop")

chatVars == <<sessions, currentSessionId, nextId, abortController, aborted,
              attachedContext, storage, pc, message, signal, prompt, outcome,
              posted, stopped, sent, ops>>

turnVars == <<askedIn, cleared>>

streamVars == <<decoder, frames, unread, reads, streaming, fullResponse, streamPosted>>

contextVars == <<calls>>

\* what the chat engine leaves alone
hostVars == <<restarts>>

completionVars == <<debounceTimer, completions>>

viewVars == <<isGenerating, isTyping, viewLog>>

\* what lies outside the chat provider
outerVars == <<completionVars, viewVars>>

sideVars == <<streamVars, contextVars, hostVars, turnVars, outerVars>>

vars == <<chatVars, sideVars>>

storeVars == <<sessions, currentSessionId, nextId, storage>>

\* a message posted to the webview; req names the request on whose behalf
\* it is posted (0: none)
Msg(type, req, error) == [type |-> type, req |-> req, error |-> error]

Store == [sessions |-> sessions, cur |-> currentSessionId, nextId |-> nextId]

(* ----------------------------------------------------------------- Init *)
N_a_ts == <<"a", ".", "t", "s">>
P_a_ts == <<"/", "w", "/", "a", ".", "t", "s">>
L_ts == <<"t", "y", "p", "e", "s", "c", "r", "i", "p", "t">>
C_x == <<"x">>
C_y == <<"r", "e", "t", "u", "r", "n", " ", "1", ";">>

\* one session with one completed exchange, as loadChatHistory finds it
StoredSession ==
  [id |-> 1, title |-> T_hi,
   messages |-> << [role |-> "user", content |-> T_hi, turn |-> 0],
                   [role |-> "assistant", content |-> T_ok, turn |-> 0] >>]

\* the current file and a selection of it, as one auto-detect attaches them
\* (both items carry the id Date.now() of the same millisecond)
DetectedContext ==
  << FileItem(1, N_a_ts, P_a_ts, L_ts, C_x), SelectionItem(1, N_a_ts, 3, 5, C_y) >>

\* the ids the webview can name in removeContext: those of the items it shows
ContextIds == {DetectedContext[i].id : i \in 1..Len(DetectedContext)}

\* the states in which the first chat message can arrive: a fresh install
\* with auto-detected context, or a stored history and no context
Starts ==
  { [saved |-> <<>>, context |-> DetectedContext],
    [saved |-> <<StoredSession>>, context |-> <<>>] }

\* constructor (loadChatHistory) followed by resolveWebviewView
ChatStart(start) ==
  /\ sessions = start.saved
  /\ storage = start.saved
  /\ currentSessionId = (IF Len(start.saved) > 0 THEN start.saved[1].id ELSE 0)
  /\ nextId = Len(start.saved) + 1
  /\ attachedContext = start.context
  /\ abortController = 0
  /\ aborted = {}
  /\ pc = [r \in Req |-> "idle"]
  /\ message = [r \in Req |-> <<>>]
  /\ signal = [r \in Req |-> 0]
  /\ prompt = [r \in Req |-> <<>>]
  /\ outcome = [r \in Req |-> "none"]
  /\ posted = [r \in 0..MaxReq |-> <<>>]
  /\ stopped = {}
  /\ sent = {}
  /\ ops = 0
  /\ askedIn = [r \in Req |-> 0]
  /\ cleared = {}
  /\ debounceTimer = 0
  /\ completions = [c \in CompletionCall |-> [pc |-> "idle", result |-> "pending", text |-> <<>>]]
  /\ isGenerating = FALSE
  /\ isTyping = FALSE
  /\ viewLog = <<>>

ChatInit == \E start \in Starts : ChatStart(start)

\* no stream is being read
StreamIdle ==
  /\ decoder = "none"
  /\ frames = <<>>
  /\ unread = <<>>
  /\ reads = 0
  /\ streaming = "idle"
  /\ fullResponse = <<>>
  /\ streamPosted = <<>>

\* no file is being added, no context being detected
ContextIdle == calls = [c \in Call |-> [kind |-> "none", path |-> <<>>, pc |-> "idle"]]

\* the first extension host
FirstHost == restarts = 0

Init == ChatInit /\ StreamIdle /\ ContextIdle /\ FirstHost

(* -------------------------------------------------------------- actions *)
\* the request a new sendMessage becomes: the first unused one
IsNext(r) == pc[r] = "idle" /\ \A q \in 1..(r - 1) : pc[q] # "idle"

\* no handleUserMessage call is running
Quiet == \A r \in Req : pc[r] \in {"idle", "done"}

\* HandleUserMessageBlank with a slip: the text is tested after the ongoing
\* request has been cancelled
HandleUserMessageBlank_Cancels(r, text) ==
  /\ IsNext(r)
  /\ Trim(text) = <<>>
  /\ aborted' = (IF abortController # 0 THEN aborted \cup {abortController} ELSE aborted)
  /\ pc' = [pc EXCEPT ![r] = "done"]
  /\ message' = [message EXCEPT ![r] = text]
  /\ outcome' = [outcome EXCEPT ![r] = "ignored"]
  /\ UNCHANGED <<storeVars, abortController, attachedContext,
                 signal, prompt, posted, stopped, sent, ops, sideVars>>

\* handleUserMessage, lines 104-107: empty or whitespace-only text
HandleUserMessageBlank(r, text) ==
  /\ IsNext(r)
  /\ Trim(text) = <<>>
  /\ pc' = [pc EXCEPT ![r] = "done"]
  /\ message' = [message EXCEPT ![r] = text]
  /\ outcome' = [outcome EXCEPT ![r] = "ignored"]
  /\ UNCHANGED <<storeVars, abortController, aborted, attachedContext,
                 signal, prompt, posted, stopped, sent, ops, sideVars>>

\* HandleUserMessage with a slip: the controller in the field is replaced
\* without abort() being called on it
HandleUserMessage_NoAbort(r, text) ==
  /\ IsNext(r)
  /\ Trim(text) # <<>>
  /\ abortController' = r
  /\ pc' = [pc EXCEPT ![r] = "getApiKey"]
  /\ message' = [message EXCEPT ![r] = text]
  /\ UNCHANGED <<storeVars, aborted, attachedContext, signal, prompt, outcome,
                 posted, stopped, sent, ops, sideVars>>

\* HandleUserMessage with a slip: the typing indicator is shown before the
\* credential lookup
HandleUserMessage_ShowsTyping(r, text) ==
  /\ IsNext(r)
  /\ Trim(text) # <<>>
  /\ aborted' = (IF abortController # 0 THEN aborted \cup {abortController} ELSE aborted)
  /\ abortController' = r
  /\ pc' = [pc EXCEPT ![r] = "getApiKey"]
  /\ message' = [message EXCEPT ![r] = text]
  /\ posted' = [posted EXCEPT ![r] = Append(@, Msg("showTyping", r, ""))]
  /\ UNCHANGED <<storeVars, attachedContext, signal, prompt, outcome,
                 stopped, sent, ops, sideVars>>

\* handleUserMessage, lines 104-118: up to the await of getApiKey
HandleUserMessageCall(r, text) ==
  /\ IsNext(r)
  /\ Trim(text) # <<>>
  /\ aborted' = (IF abortController # 0 THEN aborted \cup {abortController} ELSE aborted)
  /\ abortController' = r
  /\ pc' = [pc EXCEPT ![r] = "getApiKey"]
  /\ message' = [message EXCEPT ![r] = text]
  /\ UNCHANGED <<storeVars, attachedContext, signal, prompt, outcome,
                 posted, stopped, sent, ops>>

HandleUserMessage(r, text) == HandleUserMessageCall(r, text) /\ UNCHANGED sideVars

\* the same, noting the session that is current as the call starts
HandleUserMessageNoted(r, text) ==
  /\ HandleUserMessageCall(r, text)
  /\ askedIn' = [askedIn EXCEPT ![r] = currentSessionId]
  /\ UNCHANGED <<cleared, streamVars, contextVars, hostVars, outerVars>>

\* the webview posts sendMessage while no turn is in flight
SendMessage(r, text) == Quiet /\ HandleUserMessage(r, text)

\* Failed with a slip: the user message is saved although the turn failed
Failed_SavesUserMessage(r, before, error) ==
  \E s1 \in {addUserMessage(Store, message[r], r)} :
    /\ sessions' = s1.sessions
    /\ currentSessionId' = s1.cur
    /\ nextId' = s1.nextId
    /\ storage' = s1.sessions
    /\ posted' = [posted EXCEPT ![r] = @ \o before \o <<Msg("hideTyping", r, ""), Msg("error", r, error)>>]
    /\ pc' = [pc EXCEPT ![r] = "done"]
    /\ outcome' = [outcome EXCEPT ![r] = "error"]
    /\ abortController' = 0
    /\ signal' = [signal EXCEPT ![r] = 0]
    /\ prompt' = [prompt EXCEPT ![r] = <<>>]
    /\ UNCHANGED <<aborted, attachedContext, message, stopped, sent, ops, sideVars>>

\* Failed with a slip: no finally block, the controller stays in the field
Failed_NoFinally(r, before, error) ==
  /\ posted' = [posted EXCEPT ![r] = @ \o before \o <<Msg("hideTyping", r, ""), Msg("error", r, error)>>]
  /\ pc' = [pc EXCEPT ![r] = "done"]
  /\ outcome' = [outcome EXCEPT ![r] = "error"]
  /\ signal' = [signal EXCEPT ![r] = 0]
  /\ prompt' = [prompt EXCEPT ![r] = <<>>]
  /\ UNCHANGED <<storeVars, abortController, aborted, attachedContext, message,
                 stopped, sent, ops, sideVars>>

\* the catch and finally blocks of handleUserMessage, lines 172-190, for an
\* error that is not an AbortError
Failed(r, before, error) ==
  /\ posted' = [posted EXCEPT ![r] = @ \o before \o <<Msg("hideTyping", r, ""), Msg("error", r, error)>>]
  /\ pc' = [pc EXCEPT ![r] = "done"]
  /\ outcome' = [outcome EXCEPT ![r] = "error"]
  /\ abortController' = 0
  /\ signal' = [signal EXCEPT ![r] = 0]
  /\ prompt' = [prompt EXCEPT ![r] = <<>>]
  /\ UNCHANGED <<storeVars, aborted, attachedContext, message, stopped, sent, ops, sideVars>>

\* ApiKeyMissing with a slip: the early return skips the cleanup
ApiKeyMissing_KeepsController(r) ==
  /\ pc[r] = "getApiKey"
  /\ posted' = [posted EXCEPT ![r] = Append(@, Msg("error", r, E_NoKey))]
  /\ pc' = [pc EXCEPT ![r] = "done"]
  /\ outcome' = [outcome EXCEPT ![r] = "error"]
  /\ UNCHANGED <<storeVars, abortController, aborted, attachedContext, message,
                 signal, prompt, stopped, sent, ops, sideVars>>

\* getApiKey resolves with no key: lines 119-126 and the finally block
ApiKeyMissing(r) ==
  /\ pc[r] = "getApiKey"
  /\ posted' = [posted EXCEPT ![r] = Append(@, Msg("error", r, E_NoKey))]
  /\ pc' = [pc EXCEPT ![r] = "done"]
  /\ outcome' = [outcome EXCEPT ![r] = "error"]
  /\ abortController' = 0
  /\ signal' = [signal EXCEPT ![r] = 0]
  /\ prompt' = [prompt EXCEPT ![r] = <<>>]
  /\ UNCHANGED <<storeVars, aborted, attachedContext, message, stopped, sent, ops, sideVars>>

\* getApiKey resolves with a key, lines 128-159 and queryPerplexityAPI up to
\* the await of fetch: the request is handed to the transport with the
\* signal of whatever controller the field holds now
ApiKeyFound(r) ==
  /\ pc[r] = "getApiKey"
  /\ abortController # 0
  /\ posted' = [posted EXCEPT ![r] = Append(@, Msg("showTyping", r, ""))]
  /\ prompt' = [prompt EXCEPT ![r] = FullMessage(attachedContext, message[r])]
  /\ signal' = [signal EXCEPT ![r] = abortController]
  /\ pc' = [pc EXCEPT ![r] = "fetch"]
  /\ sent' = sent \cup {r}
  /\ UNCHANGED <<storeVars, abortController, aborted, attachedContext,
                 message, outcome, stopped, ops, sideVars>>

\* as ApiKeyFound when the field is undefined by then: reading .signal at
\* line 158 throws a TypeError, which the catch block reports
ApiKeyFoundNoController(r) ==
  /\ pc[r] = "getApiKey"
  /\ abortController = 0
  /\ Failed(r, <<Msg("showTyping", r, "")>>, E_NoSignal)

\* the transport is working on the request of r
Pending(r) == pc[r] \in {"fetch", "json"} /\ signal[r] \notin aborted

\* fetch rejects (network error)
FetchRejects(r) ==
  /\ pc[r] = "fetch" /\ Pending(r)
  /\ Failed(r, <<>>, E_Fetch)

\* FetchNotOk with a slip: the status is not looked at, and the body of the
\* error response is read as if it were the answer
FetchNotOk_ReadsBody(r, status) ==
  /\ pc[r] = "fetch" /\ Pending(r)
  /\ pc' = [pc EXCEPT ![r] = "json"]
  /\ UNCHANGED <<storeVars, abortController, aborted, attachedContext,
                 message, signal, prompt, outcome, posted, stopped, sent, ops, sideVars>>

\* fetch resolves with a non-success status: lines 410-413
FetchNotOk(r, status) ==
  /\ pc[r] = "fetch" /\ Pending(r)
  /\ Failed(r, <<>>, StatusMessage(status))

\* fetch resolves with a success status and a body: line 419 awaits json()
FetchOk(r) ==
  /\ pc[r] = "fetch" /\ Pending(r)
  /\ pc' = [pc EXCEPT ![r] = "json"]
  /\ UNCHANGED <<storeVars, abortController, aborted, attachedContext,
                 message, signal, prompt, outcome, posted, stopped, sent, ops, sideVars>>

\* Completed with a slip: the context-augmented prompt is saved as the
\* user message
Completed_SavesPrompt(r, response) ==
  \E s1 \in {addUserMessage(Store, prompt[r], r)} :
  \E s2 \in {addAssistantMessage(s1, response, r)} :
     /\ sessions' = s2.sessions
     /\ currentSessionId' = s2.cur
     /\ nextId' = s2.nextId
     /\ storage' = s2.sessions
     /\ posted' = [posted EXCEPT ![r] = @ \o <<Msg("hideTyping", r, ""),
                                              Msg("updateChat", r, ""),
                                              Msg("updateChat", r, "")>>]
     /\ pc' = [pc EXCEPT ![r] = "done"]
     /\ outcome' = [outcome EXCEPT ![r] = "completed"]
     /\ abortController' = 0
     /\ signal' = [signal EXCEPT ![r] = 0]
     /\ prompt' = [prompt EXCEPT ![r] = <<>>]
     /\ UNCHANGED <<aborted, attachedContext, message, stopped, sent, ops, sideVars>>

\* Completed with a slip: the context is cleared once it has been used
Completed_ClearsContext(r, response) ==
  \E s1 \in {addUserMessage(Store, message[r], r)} :
  \E s2 \in {addAssistantMessage(s1, response, r)} :
     /\ sessions' = s2.sessions
     /\ currentSessionId' = s2.cur
     /\ nextId' = s2.nextId
     /\ storage' = s2.sessions
     /\ attachedContext' = <<>>
     /\ posted' = [posted EXCEPT ![r] = @ \o <<Msg("hideTyping", r, ""),
                                              Msg("updateChat", r, ""),
                                              Msg("updateChat", r, "")>>]
     /\ pc' = [pc EXCEPT ![r] = "done"]
     /\ outcome' = [outcome EXCEPT ![r] = "completed"]
     /\ abortController' = 0
     /\ signal' = [signal EXCEPT ![r] = 0]
     /\ prompt' = [prompt EXCEPT ![r] = <<>>]
     /\ UNCHANGED <<aborted, message, stopped, sent, ops, sideVars>>

\* Completed with a slip: the assistant message is added without the
\* history being saved again, so the store holds the turn without its answer
Completed_SavesOnce(r, response) ==
  \E s1 \in {addUserMessage(Store, message[r], r)} :
  \E s2 \in {addAssistantMessage(s1, response, r)} :
     /\ sessions' = s2.sessions
     /\ currentSessionId' = s2.cur
     /\ nextId' = s2.nextId
     /\ storage' = s1.sessions
     /\ posted' = [posted EXCEPT ![r] = @ \o <<Msg("hideTyping", r, ""),
                                              Msg("updateChat", r, ""),
                                              Msg("updateChat", r, "")>>]
     /\ pc' = [pc EXCEPT ![r] = "done"]
     /\ outcome' = [outcome EXCEPT ![r] = "completed"]
     /\ abortController' = 0
     /\ signal' = [signal EXCEPT ![r] = 0]
     /\ prompt' = [prompt EXCEPT ![r] = <<>>]
     /\ UNCHANGED <<aborted, attachedContext, message, stopped, sent, ops, sideVars>>

\* lines 161-171 and the finally block: the turn is saved to history
Completed(r, response) ==
  \E s1 \in {addUserMessage(Store, message[r], r)} :
  \E s2 \in {addAssistantMessage(s1, response, r)} :
     /\ sessions' = s2.sessions
     /\ currentSessionId' = s2.cur
     /\ nextId' = s2.nextId
     /\ storage' = s2.sessions
     /\ posted' = [posted EXCEPT ![r] = @ \o <<Msg("hideTyping", r, ""),
                                              Msg("updateChat", r, ""),
                                              Msg("updateChat", r, "")>>]
     /\ pc' = [pc EXCEPT ![r] = "done"]
     /\ outcome' = [outcome EXCEPT ![r] = "completed"]
     /\ abortController' = 0
     /\ signal' = [signal EXCEPT ![r] = 0]
     /\ prompt' = [prompt EXCEPT ![r] = <<>>]
     /\ UNCHANGED <<aborted, attachedContext, message, stopped, sent, ops, sideVars>>

\* fetch resolves with a success status and no body: lines 415-417
FetchNoBody(r) ==
  /\ pc[r] = "fetch" /\ Pending(r)
  /\ Completed(r, S_NoResponse)

\* response.json() resolves: line 420
JsonResolves(r, data) ==
  /\ pc[r] = "json" /\ Pending(r)
  /\ Completed(r, ResponseContent(data))

\* response.json() rejects (the body is not JSON, or the connection broke)
JsonRejects(r) ==
  /\ pc[r] = "json" /\ Pending(r)
  /\ Failed(r, <<>>, E_Json)

\* the transport rejects with an AbortError because the signal it was given
\* is aborted: catch block lines 173-181 and the finally block
AbortError(r) ==
  /\ pc[r] \in {"fetch", "json"}
  /\ signal[r] \in aborted
  /\ posted' = [posted EXCEPT ![r] = @ \o <<Msg("hideTyping", r, ""), Msg("responseStopped", r, "")>>]
  /\ pc' = [pc EXCEPT ![r] = "done"]
  /\ outcome' = [outcome EXCEPT ![r] = "stopped"]
  /\ abortController' = 0
  /\ signal' = [signal EXCEPT ![r] = 0]
  /\ prompt' = [prompt EXCEPT ![r] = <<>>]
  /\ UNCHANGED <<storeVars, aborted, attachedContext, message, stopped, sent, ops, sideVars>>

\* StopGeneration with a slip: the stopped event is posted whether or not
\* a controller is held
StopGeneration_Unguarded ==
  /\ aborted' = (IF abortController # 0 THEN aborted \cup {abortController} ELSE aborted)
  /\ stopped' = (IF abortController # 0 THEN stopped \cup {abortController} ELSE stopped)
  /\ abortController' = 0
  /\ posted' = [posted EXCEPT ![abortController] = Append(@, Msg("responseStopped", abortController, ""))]
  /\ UNCHANGED <<storeVars, attachedContext, pc, message, signal, prompt,
                 outcome, sent, ops, sideVars>>

\* stopGeneration, lines 264-273
StopGeneration ==
  /\ abortController # 0
  /\ aborted' = aborted \cup {abortController}
  /\ stopped' = stopped \cup {abortController}
  /\ abortController' = 0
  /\ posted' = [posted EXCEPT ![abortController] = Append(@, Msg("responseStopped", abortController, ""))]
  /\ UNCHANGED <<storeVars, attachedContext, pc, message, signal, prompt,
                 outcome, sent, ops, sideVars>>

\* stopGeneration when no controller is held: nothing happens
StopGenerationIdle ==
  /\ abortController = 0
  /\ UNCHANGED vars

\* StartNewChat with a slip: the session record is made at once, empty
StartNewChat_Materializes ==
  /\ ops < MaxOps
  /\ ops' = ops + 1
  /\ currentSessionId' = nextId
  /\ nextId' = nextId + 1
  /\ sessions' = <<[id |-> nextId, title |-> <<>>, messages |-> <<>>]>> \o sessions
  /\ posted' = [posted EXCEPT ![0] = Append(@, Msg("updateChat", 0, ""))]
  /\ UNCHANGED <<storage, abortController, aborted, attachedContext,
                 pc, message, signal, prompt, outcome, stopped, sent, sideVars>>

\* startNewChat, lines 255-262
StartNewChat ==
  /\ ops < MaxOps
  /\ ops' = ops + 1
  /\ currentSessionId' = nextId
  /\ nextId' = nextId + 1
  /\ posted' = [posted EXCEPT ![0] = Append(@, Msg("updateChat", 0, ""))]
  /\ UNCHANGED <<sessions, storage, abortController, aborted, attachedContext,
                 pc, message, signal, prompt, outcome, stopped, sent, sideVars>>

\* SelectSession with a slip: the id is taken without looking it up
SelectSession_Unchecked(sessionId) ==
  /\ ops < MaxOps
  /\ ops' = ops + 1
  /\ currentSessionId' = sessionId
  /\ posted' = [posted EXCEPT ![0] = Append(@, Msg("updateChat", 0, ""))]
  /\ UNCHANGED <<sessions, nextId, storage, abortController, aborted,
                 attachedContext, pc, message, signal, prompt, outcome, stopped, sent, sideVars>>

\* selectSession, lines 333-339
SelectSession(sessionId) ==
  /\ IF FindSession(sessions, sessionId) # 0
       THEN /\ ops < MaxOps
            /\ ops' = ops + 1
            /\ currentSessionId' = sessionId
            /\ posted' = [posted EXCEPT ![0] = Append(@, Msg("updateChat", 0, ""))]
       ELSE UNCHANGED <<currentSessionId, posted, ops>>
  /\ UNCHANGED <<sessions, nextId, storage, abortController, aborted,
                 attachedContext, pc, message, signal, prompt, outcome, stopped, sent, sideVars>>

\* ClearHistory with a slip: a new current session id is made at once
ClearHistory_NewSession ==
  /\ ops < MaxOps
  /\ ops' = ops + 1
  /\ sessions' = <<>>
  /\ currentSessionId' = nextId
  /\ nextId' = nextId + 1
  /\ storage' = <<>>
  /\ posted' = [posted EXCEPT ![0] = Append(@, Msg("updateChat", 0, ""))]
  /\ UNCHANGED <<abortController, aborted, attachedContext, pc,
                 message, signal, prompt, outcome, stopped, sent, sideVars>>

\* clearHistory, lines 275-283
ClearHistoryCall ==
  /\ ops < MaxOps
  /\ ops' = ops + 1
  /\ sessions' = <<>>
  /\ currentSessionId' = 0
  /\ storage' = <<>>
  /\ posted' = [posted EXCEPT ![0] = Append(@, Msg("updateChat", 0, ""))]
  /\ UNCHANGED <<nextId, abortController, aborted, attachedContext, pc,
                 message, signal, prompt, outcome, stopped, sent>>

ClearHistory == ClearHistoryCall /\ UNCHANGED sideVars

\* the same, noting the calls that are running
ClearHistoryNoted ==
  /\ ClearHistoryCall
  /\ cleared' = cleared \cup {r \in Req : pc[r] \notin {"idle", "done"}}
  /\ UNCHANGED <<askedIn, streamVars, contextVars, hostVars, outerVars>>

\* WithoutId with a slip: the test of the filter is turned round, and the
\* items of that id are the ones kept
RECURSIVE WithoutId_KeepsOnly(_, _)
WithoutId_KeepsOnly(items, id) ==
  IF items = <<>> THEN <<>>
  ELSE IF Head(items).id # id THEN WithoutId_KeepsOnly(Tail(items), id)
  ELSE <<Head(items)>> \o WithoutId_KeepsOnly(Tail(items), id)

\* Array.prototype.filter on the item id
RECURSIVE WithoutId(_, _)
WithoutId(items, id) ==
  IF items = <<>> THEN <<>>
  ELSE IF Head(items).id = id THEN WithoutId(Tail(items), id)
  ELSE <<Head(items)>> \o WithoutId(Tail(items), id)

\* handleRemoveContext, lines 994-1002
HandleRemoveContext(contextId) ==
  /\ ops < MaxOps
  /\ ops' = ops + 1
  /\ attachedContext' = WithoutId(attachedContext, contextId)
  /\ posted' = [posted EXCEPT ![0] = Append(@, Msg("contextAttached", 0, ""))]
  /\ UNCHANGED <<storeVars, abortController, aborted, pc, message, signal,
                 prompt, outcome, stopped, sent, sideVars>>

Next ==
  \/ \E r \in Req, text \in Texts : HandleUserMessageBlank(r, text)
  \/ \E r \in Req, text \in Texts : HandleUserMessage(r, text)
  \/ \E r \in Req : ApiKeyMissing(r)
  \/ \E r \in Req : ApiKeyFound(r)
  \/ \E r \in Req : ApiKeyFoundNoController(r)
  \/ \E r \in Req : FetchRejects(r)
  \/ \E r \in Req, status \in Statuses : FetchNotOk(r, status)
  \/ \E r \in Req : FetchOk(r)
  \/ \E r \in Req : FetchNoBody(r)
  \/ \E r \in Req, data \in Datas : JsonResolves(r, data)
  \/ \E r \in Req : JsonRejects(r)
  \/ \E r \in Req : AbortError(r)
  \/ StopGeneration
  \/ StopGenerationIdle
  \/ StartNewChat
  \/ \E sessionId \in 1..nextId : SelectSession(sessionId)
  \/ ClearHistory
  \/ \E contextId \in ContextIds : HandleRemoveContext(contextId)

Spec == Init /\ [][Next]_vars

\* Spec with the notes about the turns taken
NotedNext ==
  \/ \E r \in Req, text \in Texts : HandleUserMessageBlank(r, text)
  \/ \E r \in Req, text \in Texts : HandleUserMessageNoted(r, text)
  \/ \E r \in Req : ApiKeyMissing(r)
  \/ \E r \in Req : ApiKeyFound(r)
  \/ \E r \in Req : ApiKeyFoundNoController(r)
  \/ \E r \in Req : FetchRejects(r)
  \/ \E r \in Req, status \in Statuses : FetchNotOk(r, status)
  \/ \E r \in Req : FetchOk(r)
  \/ \E r \in Req : FetchNoBody(r)
  \/ \E r \in Req, data \in Datas : JsonResolves(r, data)
  \/ \E r \in Req : JsonRejects(r)
  \/ \E r \in Req : AbortError(r)
  \/ StopGeneration
  \/ StopGenerationIdle
  \/ StartNewChat
  \/ \E sessionId \in 1..nextId : SelectSession(sessionId)
  \/ ClearHistoryNoted
  \/ \E contextId \in ContextIds : HandleRemoveContext(contextId)

NotedSpec == Init /\ [][NotedNext]_vars

(* --------------------------------------------------------- fairness *)
\* the credential lookup of r answers
KeyAnswers(r) == ApiKeyMissing(r) \/ ApiKeyFound(r) \/ ApiKeyFoundNoController(r)

\* the transport answers the request of r, or aborts it
TransportAnswers(r) ==
  \/ FetchRejects(r)
  \/ \E status \in Statuses : FetchNotOk(r, status)
  \/ FetchOk(r)
  \/ FetchNoBody(r)
  \/ \E data \in Datas : JsonResolves(r, data)
  \/ JsonRejects(r)
  \/ AbortError(r)

\* a pending promise of some call settles
Settles == \E r \in Req : KeyAnswers(r) \/ TransportAnswers(r)

\* Spec with a credential store and a transport that settle every promise
\* they hand out: while some call awaits one, one of them is settled
LiveSpec == Spec /\ WF_vars(Settles)

(* ------------------------------------------------------ response stream *)
\* The server writes frames "data: <payload>" followed by an empty line; the
\* transport hands the bytes out in chunks cut wherever it likes. Both
\* readers split every chunk at newlines on its own: neither keeps what is
\* left of a chunk after its last newline for the next one.

\* number of chunks read() hands out at most
MaxChunks == 2

S_Data == <<"d", "a", "t", "a", ":", " ">>
S_Done == <<"[", "D", "O", "N", "E", "]">>
S_FrameEnd == <<"\n", "\n">>
J_Pre == <<"{", "\"", "c", "h", "o", "i", "c", "e", "s", "\"", ":", "[", "{",
           "\"", "d", "e", "l", "t", "a", "\"", ":", "{",
           "\"", "c", "o", "n", "t", "e", "n", "t", "\"", ":", "\"">>
J_Post == <<"\"", "}", "}", "]", "}">>

\* the JSON text of a completion chunk whose delta carries content
Json(content) == J_Pre \o content \o J_Post

\* the JSON text of a completion chunk whose delta carries, as content, the
\* value written as text (null, or a number)
J_PreValue == SubSeq(J_Pre, 1, Len(J_Pre) - 1)
J_PostValue == Tail(J_Post)
JsonValue(text) == J_PreValue \o text \o J_PostValue

S_Null == <<"n", "u", "l", "l">>

\* the JSON text of a completion chunk whose delta has no content (the
\* first chunk of an answer carries the role only)
J_Absent == <<"{", "\"", "c", "h", "o", "i", "c", "e", "s", "\"", ":", "[", "{",
              "\"", "d", "e", "l", "t", "a", "\"", ":", "{", "}", "}", "]", "}">>

\* a payload cut off by the server: not JSON
J_Malformed == <<"{", "\"", "c", "h", "o", "i", "c", "e", "s", "\"", ":", "[">>

D_a == <<"a">>
D_b == <<"b">>

\* the deltas a frame of the streams below can carry
Deltas == {D_a, D_b}

\* the numbers a frame of the streams below can carry as content
Numbers == {0, 5}

DeltaFrame(content) == [kind |-> "delta", content |-> content]
MalformedFrame == [kind |-> "malformed", content |-> <<>>]
DoneFrame == [kind |-> "done", content |-> <<>>]
AbsentFrame == [kind |-> "absent", content |-> <<>>]
NullFrame == [kind |-> "null", content |-> S_Null]
NumberFrame(n) == [kind |-> "number", content |-> NumberToString(n)]

Payload(frame) ==
  CASE frame.kind = "delta" -> Json(frame.content)
    [] frame.kind = "malformed" -> J_Malformed
    [] frame.kind = "done" -> S_Done
    [] frame.kind = "absent" -> J_Absent
    [] frame.kind \in {"null", "number"} -> JsonValue(frame.content)

FrameText(frame) == S_Data \o Payload(frame) \o S_FrameEnd

RECURSIVE WireText(_)
WireText(fs) == IF fs = <<>> THEN <<>> ELSE FrameText(Head(fs)) \o WireText(Tail(fs))

\* the streams a server sends: deltas and then [DONE]; the same with a
\* malformed frame between the deltas; a delta after [DONE]; a stream that
\* ends without [DONE]
Streams ==
  { <<DeltaFrame(D_a), DeltaFrame(D_b), DoneFrame>>,
    <<DeltaFrame(D_a), MalformedFrame, DeltaFrame(D_b), DoneFrame>>,
    <<DeltaFrame(D_a), DoneFrame, DeltaFrame(D_b)>>,
    <<DeltaFrame(D_b), DeltaFrame(D_a)>> }

\* String.prototype.split("\n")
RECURSIVE SplitLines(_)
SplitLines(s) ==
  IF \E i \in 1..Len(s) : s[i] = "\n"
    THEN LET i == CHOOSE k \in 1..Len(s) :
                    s[k] = "\n" /\ \A j \in 1..(k - 1) : s[j] # "\n"
         IN <<SubSeq(s, 1, i - 1)>> \o SplitLines(SubSeq(s, i + 1, Len(s)))
    ELSE <<s>>

\* String.prototype.startsWith and String.prototype.includes
StartsWith(s, p) == Len(p) <= Len(s) /\ SubSeq(s, 1, Len(p)) = p
Includes(s, p) == \E i \in 1..(Len(s) - Len(p) + 1) : SubSeq(s, i, i + Len(p) - 1) = p

\* JSON.parse followed by .choices?.[0]?.delta?.content, on the texts that
\* occur here: the payload of a delta frame parses and yields its content;
\* the malformed payload, and every piece a cut leaves of a payload (a piece
\* of an object text has unbalanced braces), make JSON.parse throw
JsonParse(text) ==
  LET t == Trim(text)
  IN IF \E d \in Deltas : t = Json(d)
       THEN [ok |-> TRUE, type |-> "string", n |-> 0,
             content |-> (CHOOSE d \in Deltas : t = Json(d))]
     ELSE IF \E n \in Numbers : t = JsonValue(NumberToString(n))
       THEN [ok |-> TRUE, type |-> "number",
             n |-> (CHOOSE n \in Numbers : t = JsonValue(NumberToString(n))),
             content |-> <<>>]
     ELSE IF t = JsonValue(S_Null)
       THEN [ok |-> TRUE, type |-> "null", n |-> 0, content |-> <<>>]
     ELSE IF t = J_Absent
       THEN [ok |-> TRUE, type |-> "undefined", n |-> 0, content |-> <<>>]
       ELSE [ok |-> FALSE, type |-> "undefined", n |-> 0, content |-> <<>>]

\* the test of "if (content)": a non-empty string or a number other than 0
\* passes; undefined, null, the empty string and 0 do not
Truthy(v) ==
  \/ v.type = "string" /\ v.content # <<>>
  \/ v.type = "number" /\ v.n # 0

\* the text that += appends for a value that passed the test; the value is
\* forwarded as it is, and is written here as that text
ValueText(v) == IF v.type = "number" THEN NumberToString(v.n) ELSE v.content

\* chatProvider.ts lines 454-483: the deltas the for loop over the lines of
\* one chunk forwards; [DONE] breaks out of the for loop
RECURSIVE ChatDeltas(_)
ChatDeltas(lines) ==
  IF lines = <<>> THEN <<>>
  ELSE LET line == Head(lines)
           data == Trim(SubSeq(line, Len(S_Data) + 1, Len(line)))
       IN IF Trim(line) = <<>> \/ ~StartsWith(line, S_Data)
            THEN ChatDeltas(Tail(lines))
          ELSE IF data = S_Done
            THEN <<>>
          ELSE IF JsonParse(data).ok /\ Truthy(JsonParse(data))
            THEN <<ValueText(JsonParse(data))>> \o ChatDeltas(Tail(lines))
          ELSE ChatDeltas(Tail(lines))

\* extension.ts lines 630-646: the deltas the for loop over the lines of one
\* chunk hands to onChunk; a line that contains [DONE] is skipped
RECURSIVE CommandDeltas(_)
CommandDeltas(lines) ==
  IF lines = <<>> THEN <<>>
  ELSE LET line == Head(lines)
           jsonStr == SubSeq(line, Len(S_Data) + 1, Len(line))
       IN IF StartsWith(line, S_Data) /\ ~Includes(line, S_Done)
             /\ Trim(jsonStr) # <<>>
             /\ JsonParse(jsonStr).ok /\ Truthy(JsonParse(jsonStr))
            THEN <<ValueText(JsonParse(jsonStr))>> \o CommandDeltas(Tail(lines))
            ELSE CommandDeltas(Tail(lines))

\* a message posted to the webview (chat) or a callback called (command)
StreamMsg(type, content) == [type |-> type, content |-> content]

\* ChunkMsgs with a slip: the newest delta of a chunk is posted first
RECURSIVE ChunkMsgs_NewestFirst(_, _)
ChunkMsgs_NewestFirst(type, deltas) ==
  IF deltas = <<>> THEN <<>>
  ELSE ChunkMsgs_NewestFirst(type, Tail(deltas)) \o <<StreamMsg(type, Head(deltas))>>

\* one message per delta, in the order of the deltas
RECURSIVE ChunkMsgs(_, _)
ChunkMsgs(type, deltas) ==
  IF deltas = <<>> THEN <<>>
  ELSE <<StreamMsg(type, Head(deltas))>> \o ChunkMsgs(type, Tail(deltas))

\* the text the += of the loop adds, delta by delta
RECURSIVE Concat(_)
Concat(deltas) == IF deltas = <<>> THEN <<>> ELSE Head(deltas) \o Concat(Tail(deltas))

\* handleStreamingResponse is called with the body of a response, or
\* queryPerplexityAPIStream gets one: lines 428-438, extension.ts 612-614
StreamStart(fs) ==
  /\ frames = fs
  /\ unread = WireText(fs)
  /\ \E d \in {"chat", "command"} :
       /\ decoder = d
       /\ streamPosted = (IF d = "chat" THEN <<StreamMsg("streamStart", <<>>)>> ELSE <<>>)
  /\ reads = 0
  /\ streaming = "reading"
  /\ fullResponse = <<>>

StreamInit == \E fs \in Streams : StreamStart(fs)

\* the transport cuts the next chunk after n bytes; by the last chunk it may
\* hand out, it hands out all that is left
CanRead(n) ==
  /\ streaming = "reading"
  /\ n \in 1..Len(unread)
  /\ (reads + 1 < MaxChunks \/ n = Len(unread))

\* handleStreamingResponse, lines 445-484: read() resolves with a chunk
ChatReadChunk(n) ==
  /\ decoder = "chat"
  /\ CanRead(n)
  /\ \E deltas \in {ChatDeltas(SplitLines(SubSeq(unread, 1, n)))} :
       /\ fullResponse' = fullResponse \o Concat(deltas)
       /\ streamPosted' = streamPosted \o ChunkMsgs("streamChunk", deltas)
  /\ unread' = SubSeq(unread, n + 1, Len(unread))
  /\ reads' = reads + 1
  /\ UNCHANGED <<decoder, frames, streaming, chatVars, contextVars, hostVars, turnVars, outerVars>>

\* lines 445-449 and 486-492: read() says done
ChatReadDone ==
  /\ decoder = "chat"
  /\ streaming = "reading"
  /\ unread = <<>>
  /\ streamPosted' = Append(streamPosted, StreamMsg("streamEnd", <<>>))
  /\ streaming' = "ended"
  /\ UNCHANGED <<decoder, frames, unread, reads, fullResponse, chatVars, contextVars, hostVars, turnVars, outerVars>>

\* lines 441-443 and 493-498: the signal is aborted when the loop comes
\* round, the call throws
ChatStreamAborted ==
  /\ decoder = "chat"
  /\ streaming = "reading"
  /\ streaming' = "aborted"
  /\ UNCHANGED <<decoder, frames, unread, reads, fullResponse, streamPosted, chatVars, contextVars, hostVars, turnVars, outerVars>>

\* queryPerplexityAPIStream, extension.ts lines 618-647, with the onChunk of
\* askPerplexityWithStreaming (lines 365-366): read() resolves with a chunk
CommandReadChunk(n) ==
  /\ decoder = "command"
  /\ CanRead(n)
  /\ \E deltas \in {CommandDeltas(SplitLines(SubSeq(unread, 1, n)))} :
       /\ fullResponse' = fullResponse \o Concat(deltas)
       /\ streamPosted' = streamPosted \o ChunkMsgs("onChunk", deltas)
  /\ unread' = SubSeq(unread, n + 1, Len(unread))
  /\ reads' = reads + 1
  /\ UNCHANGED <<decoder, frames, streaming, chatVars, contextVars, hostVars, turnVars, outerVars>>

\* extension.ts lines 620-623: read() says done, onComplete is called
CommandReadDone ==
  /\ decoder = "command"
  /\ streaming = "reading"
  /\ unread = <<>>
  /\ streamPosted' = Append(streamPosted, StreamMsg("onComplete", <<>>))
  /\ streaming' = "ended"
  /\ UNCHANGED <<decoder, frames, unread, reads, fullResponse, chatVars, contextVars, hostVars, turnVars, outerVars>>

\* the chat engine at rest while a stream is read
ChatQuiet == ChatInit /\ sessions = <<>>

DecoderInit == ChatQuiet /\ ContextIdle /\ FirstHost /\ StreamInit

DecoderNext ==
  \/ \E n \in 1..Len(unread) : ChatReadChunk(n)
  \/ ChatReadDone
  \/ ChatStreamAborted
  \/ \E n \in 1..Len(unread) : CommandReadChunk(n)
  \/ CommandReadDone

DecoderSpec == DecoderInit /\ [][DecoderNext]_vars

\* streams with a frame between two deltas whose delta has no content, or
\* has a content that is not a string: null, 0, 5
ValueStreams ==
  { <<DeltaFrame(D_a), AbsentFrame, DeltaFrame(D_b)>>,
    <<DeltaFrame(D_a), NullFrame, DeltaFrame(D_b)>>,
    <<DeltaFrame(D_a), NumberFrame(0), DeltaFrame(D_b)>>,
    <<DeltaFrame(D_a), NumberFrame(5), DeltaFrame(D_b)>> }

ValueInit ==
  /\ ChatQuiet /\ ContextIdle /\ FirstHost
  /\ \E fs \in ValueStreams : StreamStart(fs)

\* the two readers on those streams
ValueSpec == ValueInit /\ [][DecoderNext]_vars

(* ------------------------------------------- ask with streaming command *)
\* askPerplexityWithStreaming (extension.ts lines 332-409) calls
\* queryPerplexityAPIStream (574-654) and, when that throws, asks again
\* with queryPerplexityAPI (657-690) and writes the answer over the
\* document. streaming says where the command stands: "fetch" (the stream
\* request is with the transport), "reading", "ended" (onComplete was
\* called), "fallback" (the second request is with the transport),
\* "written" and "failed" (how the second request ended), "returned" (the
\* command gave up before any request). streamPosted notes, besides the
\* calls of onChunk and onComplete, the error messages shown, the second
\* request, and the text written over the document.

S_StreamingError ==
    <<"S", "t", "r", "e", "a", "m", "i", "n", "g", " ", "e", "r", "r", "o",
      "r", ":", " ">>
S_ErrorColon ==
    <<"E", "r", "r", "o", "r", ":", " ">>
S_FailedToStream ==
    <<"F", "a", "i", "l", "e", "d", " ", "t", "o", " ", "s", "t", "r", "e",
      "a", "m", " ", "f", "r", "o", "m", " ", "P", "e", "r", "p", "l", "e",
      "x", "i", "t", "y", " ", "A", "P", "I", ":", " ">>
S_ApiRequestFailed ==
    <<"A", "P", "I", " ", "r", "e", "q", "u", "e", "s", "t", " ", "f", "a",
      "i", "l", "e", "d", ":", " ">>
S_Details ==
    <<"\n", "D", "e", "t", "a", "i", "l", "s", ":", " ">>
S_BodyIsNull ==
    <<"R", "e", "s", "p", "o", "n", "s", "e", " ", "b", "o", "d", "y", " ",
      "i", "s", " ", "n", "u", "l", "l">>
S_FetchFailed ==
    <<"T", "y", "p", "e", "E", "r", "r", "o", "r", ":", " ", "f", "e", "t",
      "c", "h", " ", "f", "a", "i", "l", "e", "d">>
S_Terminated ==
    <<"T", "y", "p", "e", "E", "r", "r", "o", "r", ":", " ", "t", "e", "r",
      "m", "i", "n", "a", "t", "e", "d">>
S_AlsoFailed ==
    <<"C", "o", "m", "p", "l", "e", "t", "e", " ", "r", "e", "q", "u", "e",
      "s", "t", " ", "a", "l", "s", "o", " ", "f", "a", "i", "l", "e", "d",
      ":", " ">>
S_FailedToQuery ==
    <<"F", "a", "i", "l", "e", "d", " ", "t", "o", " ", "q", "u", "e", "r",
      "y", " ", "P", "e", "r", "p", "l", "e", "x", "i", "t", "y", " ", "A",
      "P", "I", " ", "-", " ">>
S_Heading ==
    <<"#", " ">>
S_FallbackNote ==
    <<"\n", "\n", "*", "N", "o", "t", "e", ":", " ", "S", "t", "r", "e", "a",
      "m", "e", "d", " ", "r", "e", "s", "p", "o", "n", "s", "e", " ", "f",
      "a", "i", "l", "e", "d", ",", " ", "s", "h", "o", "w", "i", "n", "g",
      " ", "c", "o", "m", "p", "l", "e", "t", "e", " ", "r", "e", "s", "p",
      "o", "n", "s", "e", "*">>
S_Unauthorized ==
    <<"U", "n", "a", "u", "t", "h", "o", "r", "i", "z", "e", "d">>
B_denied ==
    <<"d", "e", "n", "i", "e", "d">>

\* response.statusText
StatusText(status) ==
  CASE status = 401 -> S_Unauthorized
    [] OTHER -> <<>>

\* the text of new Error(message) in a template literal
ErrorText(thrown) == S_ErrorColon \o thrown

\* the message of the error thrown at lines 602-604
StreamStatusMessage(status, errorText) ==
  S_ApiRequestFailed \o NumberToString(status) \o <<" ">> \o StatusText(status)
    \o S_Details \o errorText

\* the question the input box returned
Question == T_hi

\* lines 390-391
FallbackContent(question, response) ==
  S_Heading \o question \o S_BlankLine \o response \o S_FallbackNote

\* lines 332-362: the key and the question are asked for, the document is
\* opened, and queryPerplexityAPIStream is called, up to its await of fetch;
\* without a key or a question the command returns
AskPerplexityWithStreaming(hasKey, hasQuestion) ==
  /\ decoder = "none" /\ streaming = "idle"
  /\ decoder' = "command"
  /\ IF hasKey /\ hasQuestion
       THEN streaming' = "fetch"
       ELSE streaming' = "returned"
  /\ UNCHANGED <<frames, unread, reads, fullResponse, streamPosted,
                 chatVars, contextVars, hostVars, turnVars, outerVars>>

\* StreamFails with a slip: onComplete is called on the way out of
\* queryPerplexityAPIStream, whether or not the stream came to its end
StreamFails_Completes(thrown) ==
  /\ decoder = "command"
  /\ streamPosted' = streamPosted \o
       << StreamMsg("onComplete", <<>>),
          StreamMsg("showErrorMessage",
                    S_StreamingError \o ErrorText(S_FailedToStream \o thrown)),
          StreamMsg("queryPerplexityAPI", <<>>) >>
  /\ streaming' = "fallback"
  /\ UNCHANGED <<decoder, frames, unread, reads, fullResponse,
                 chatVars, contextVars, hostVars, turnVars, outerVars>>

\* queryPerplexityAPIStream throws (lines 650-652), and the catch block of
\* askPerplexityWithStreaming (lines 385-389) shows the error and calls
\* queryPerplexityAPI, up to its await of fetch
StreamFails(thrown) ==
  /\ decoder = "command"
  /\ streamPosted' = streamPosted \o
       << StreamMsg("showErrorMessage",
                    S_StreamingError \o ErrorText(S_FailedToStream \o thrown)),
          StreamMsg("queryPerplexityAPI", <<>>) >>
  /\ streaming' = "fallback"
  /\ UNCHANGED <<decoder, frames, unread, reads, fullResponse,
                 chatVars, contextVars, hostVars, turnVars, outerVars>>

\* fetch rejects
StreamFetchRejects ==
  /\ streaming = "fetch"
  /\ StreamFails(S_FetchFailed)

\* fetch resolves with a non-success status, lines 600-605: the body of the
\* error response is read as text (whatever else the command does waits
\* for this call, so the await is not a step of its own) and the error with
\* the status is thrown; when the body cannot be read, text() rejects and
\* its error is the one thrown
StreamNotOk(status, readable) ==
  /\ streaming = "fetch"
  /\ IF readable
       THEN StreamFails(ErrorText(StreamStatusMessage(status, B_denied)))
       ELSE StreamFails(S_Terminated)

\* fetch resolves with a success status and no body: lines 608-610
StreamNoBody ==
  /\ streaming = "fetch"
  /\ StreamFails(ErrorText(S_BodyIsNull))

\* fetch resolves with a success status and a body: lines 612-614, up to
\* the first await of read()
StreamOk(fs) ==
  /\ decoder = "command" /\ streaming = "fetch"
  /\ frames' = fs
  /\ unread' = WireText(fs)
  /\ streaming' = "reading"
  /\ UNCHANGED <<decoder, reads, fullResponse, streamPosted,
                 chatVars, contextVars, hostVars, turnVars, outerVars>>

\* read() rejects (the connection breaks): the finally block of line 647
\* and the throw of lines 650-652
CommandReadRejects ==
  /\ streaming = "reading"
  /\ StreamFails(S_Terminated)

\* queryPerplexityAPI resolves: lines 390-398, the answer is written over
\* whatever the document holds
FallbackResolves(data) ==
  /\ decoder = "command" /\ streaming = "fallback"
  /\ streamPosted' = Append(streamPosted,
       StreamMsg("replace", FallbackContent(Question, ResponseContent(data))))
  /\ streaming' = "written"
  /\ UNCHANGED <<decoder, frames, unread, reads, fullResponse,
                 chatVars, contextVars, hostVars, turnVars, outerVars>>

\* queryPerplexityAPI throws: lines 399-403
FallbackRejects ==
  /\ decoder = "command" /\ streaming = "fallback"
  /\ streamPosted' = Append(streamPosted,
       StreamMsg("showErrorMessage",
                 S_AlsoFailed \o ErrorText(S_FailedToQuery \o S_FetchFailed)))
  /\ streaming' = "failed"
  /\ UNCHANGED <<decoder, frames, unread, reads, fullResponse,
                 chatVars, contextVars, hostVars, turnVars, outerVars>>

CommandInit == ChatQuiet /\ ContextIdle /\ FirstHost /\ StreamIdle

CommandNext ==
  \/ \E hasKey, hasQuestion \in BOOLEAN : AskPerplexityWithStreaming(hasKey, hasQuestion)
  \/ StreamFetchRejects
  \/ \E status \in Statuses, readable \in BOOLEAN : StreamNotOk(status, readable)
  \/ StreamNoBody
  \/ \E fs \in Streams : StreamOk(fs)
  \/ \E n \in 1..Len(unread) : CommandReadChunk(n)
  \/ CommandReadDone
  \/ CommandReadRejects
  \/ \E data \in Datas : FallbackResolves(data)
  \/ FallbackRejects

CommandSpec == CommandInit /\ [][CommandNext]_vars

(* ------------------------------------------------------ attached context *)
\* Every webview message starts its handler without waiting for the handler
\* of the one before (lines 50-94), and resolveWebviewView calls
\* handleAutoDetectContext on its own (line 100): calls overlap at their
\* awaits.

N_b_ts == <<"b", ".", "t", "s">>
P_b_ts == <<"/", "w", "/", "b", ".", "t", "s">>

\* the files the picker offers: the file of the active editor and another
PickerFiles == { [name |-> N_a_ts, path |-> P_a_ts], [name |-> N_b_ts, path |-> P_b_ts] }

\* what the active editor is when getCurrentFileContext looks: no editor, a
\* file with nothing selected, a file with a selection
Editors == {"none", "file", "selection"}

\* the call a new request becomes: the first one not made yet
IsNextCall(c) == calls[c].pc = "idle" /\ \A q \in 1..(c - 1) : calls[q].pc # "idle"

\* Array.prototype.find of line 712
HasFile(items, path) ==
  \E i \in 1..Len(items) : items[i].type = "file" /\ items[i].path = path

\* addFileToContext, lines 709-719: up to the await of readFile; nothing is
\* done when a file of that path is attached
AddFileToContext(c, file) ==
  /\ IsNextCall(c)
  /\ calls' = [calls EXCEPT ![c] =
       [kind |-> "add", path |-> file.path,
        pc |-> (IF HasFile(attachedContext, file.path) THEN "done" ELSE "await")]]
  /\ UNCHANGED <<chatVars, streamVars, hostVars, turnVars, outerVars>>

\* lines 717-743: readFile and getFileIconUri have resolved; the item gets
\* an id of its own (Date.now() and Math.random())
AddFileRead(c) ==
  /\ calls[c].kind = "add" /\ calls[c].pc = "await"
  /\ \E file \in {f \in PickerFiles : f.path = calls[c].path} :
       attachedContext' = Append(attachedContext,
                                 FileItem(c, file.name, file.path, L_ts, C_x))
  /\ posted' = [posted EXCEPT ![0] = Append(@, Msg("contextAttached", 0, ""))]
  /\ calls' = [calls EXCEPT ![c].pc = "done"]
  /\ UNCHANGED <<storeVars, abortController, aborted, pc, message, signal,
                 prompt, outcome, stopped, sent, ops, turnVars, outerVars, streamVars, hostVars>>

\* lines 745-748: readFile rejects; the user is told, nothing is attached
AddFileFails(c) ==
  /\ calls[c].kind = "add" /\ calls[c].pc = "await"
  /\ calls' = [calls EXCEPT ![c].pc = "done"]
  /\ UNCHANGED <<chatVars, streamVars, hostVars, turnVars, outerVars>>

\* handleAutoDetectContext, lines 538-546: up to the await of
\* getCurrentFileContext; nothing is done when some context is attached
HandleAutoDetectContext(c) ==
  /\ IsNextCall(c)
  /\ calls' = [calls EXCEPT ![c] =
       [kind |-> "detect", path |-> <<>>,
        pc |-> (IF Len(attachedContext) > 0 THEN "done" ELSE "await")]]
  /\ UNCHANGED <<chatVars, streamVars, hostVars, turnVars, outerVars>>

\* the selection of the active editor: zero-based line numbers, as
\* vscode.Selection gives them
EditorSelection == [start |-> 2, end |-> 4]

\* what lines 546-555 push for an editor. Both ids are Date.now().toString()
\* (lines 769 and 799), read with no timer or I/O between the two reads:
\* they are equal unless the clock ticked in between (tick)
Detected(c, editor, tick) ==
  CASE editor = "none" -> <<>>
    [] editor = "file" -> <<FileItem(c, N_a_ts, P_a_ts, L_ts, C_x)>>
    [] editor = "selection" ->
         <<FileItem(c, N_a_ts, P_a_ts, L_ts, C_x),
           SelectionItem(IF tick THEN c + MaxCalls ELSE c, N_a_ts,
                         EditorSelection.start + 1, EditorSelection.end + 1, C_y)>>

\* lines 546-561: getCurrentFileContext has resolved (getSelectionContext
\* waits for nothing)
AutoDetectResolves(c, editor) ==
  /\ calls[c].kind = "detect" /\ calls[c].pc = "await"
  /\ \E tick \in BOOLEAN :
       attachedContext' = attachedContext \o Detected(c, editor, tick)
  /\ posted' = [posted EXCEPT ![0] = Append(@, Msg("contextAttached", 0, ""))]
  /\ calls' = [calls EXCEPT ![c].pc = "done"]
  /\ UNCHANGED <<storeVars, abortController, aborted, pc, message, signal,
                 prompt, outcome, stopped, sent, ops, turnVars, outerVars, streamVars, hostVars>>

\* the ids the webview can name in removeContext: those of the items shown
AttachedIds == {attachedContext[i].id : i \in 1..Len(attachedContext)}

\* the chat engine at rest with nothing attached
ContextInit == ChatInit /\ attachedContext = <<>> /\ StreamIdle /\ ContextIdle /\ FirstHost

ContextNext ==
  \/ \E c \in Call, file \in PickerFiles : AddFileToContext(c, file)
  \/ \E c \in Call : AddFileRead(c)
  \/ \E c \in Call : AddFileFails(c)
  \/ \E c \in Call : HandleAutoDetectContext(c)
  \/ \E c \in Call, editor \in Editors : AutoDetectResolves(c, editor)
  \/ \E contextId \in AttachedIds : HandleRemoveContext(contextId)

ContextSpec == ContextInit /\ [][ContextNext]_vars

\* the ids a removeContext message can carry: those of the items the
\* webview shows or has shown
KnownIds == 1..(2 * MaxCalls)

\* The same, with removeContext messages that come late, for an item that
\* is no longer attached, or early, for an id not yet in use
RemoveNext ==
  \/ ContextNext
  \/ \E contextId \in KnownIds : HandleRemoveContext(contextId)

RemoveSpec == ContextInit /\ [][RemoveNext]_vars

\* The same, with messages sent in between: one at a time, each handed to
\* the transport, which fails it
RenderNext ==
  \/ ContextNext
  \/ \E r \in Req : SendMessage(r, T_hi)
  \/ \E r \in Req : ApiKeyFound(r)
  \/ \E r \in Req : FetchRejects(r)

RenderSpec == ContextInit /\ [][RenderNext]_vars

(* ---------------------------------------------------------- persistence *)
\* saveChatHistory hands _sessions to globalState.update (storage holds what
\* it was handed). The next extension host gets them back as JSON:
\* JSON.stringify has written every Date as the string its toJSON() returns.
\* Its constructor reads them with loadChatHistory. The records of the chat
\* engine above leave the two time fields out; the records here have them.

\* a Date, and a string, as values of a time field
DateValue(time) == [type |-> "Date", time |-> time, text |-> <<>>]
StringValue(text) == [type |-> "string", time |-> 0, text |-> text]

\* the time of an invalid Date (NaN)
InvalidTime == 0 - 1

S_IsoMinute == <<"1", "9", "7", "0", "-", "0", "1", "-", "0", "1", "T", "0", "0", ":", "0", "0", ":">>
S_IsoZ == <<"Z">>

\* n in decimal, with zeros in front up to the given width
RECURSIVE Pad(_, _)
Pad(n, width) ==
  IF width = 0 THEN <<>> ELSE Pad(n \div 10, width - 1) \o <<Digits[(n % 10) + 1]>>

\* Date.prototype.toISOString, for the times of the first minute of 1970
ToISOString(time) ==
  S_IsoMinute \o Pad(time \div 1000, 2) \o <<".">> \o Pad(time % 1000, 3) \o S_IsoZ

IsDigit(c) == \E i \in 1..10 : Digits[i] = c
DigitValue(c) == (CHOOSE i \in 1..10 : Digits[i] = c) - 1

RECURSIVE ParseDigits(_)
ParseDigits(s) ==
  IF s = <<>> THEN 0
  ELSE ParseDigits(SubSeq(s, 1, Len(s) - 1)) * 10 + DigitValue(s[Len(s)])

\* Date.parse of such a string; anything else is an invalid date
DateParse(text) ==
  LET n == Len(S_IsoMinute)
  IN IF /\ Len(text) = n + 7
        /\ SubSeq(text, 1, n) = S_IsoMinute
        /\ \A i \in {n + 1, n + 2, n + 4, n + 5, n + 6} : IsDigit(text[i])
        /\ text[n + 3] = "."
        /\ text[n + 7] = "Z"
       THEN ParseDigits(SubSeq(text, n + 1, n + 2)) * 1000
              + ParseDigits(SubSeq(text, n + 4, n + 6))
       ELSE InvalidTime

\* JSON.stringify of a time field
StringifyTime(v) == IF v.type = "Date" THEN StringValue(ToISOString(v.time)) ELSE v

StringifyMessage(m) ==
  IF "timestamp" \in DOMAIN m THEN [m EXCEPT !.timestamp = StringifyTime(@)] ELSE m

StringifySession(s) ==
  LET t == [s EXCEPT !.messages = [i \in 1..Len(s.messages) |-> StringifyMessage(s.messages[i])]]
  IN IF "createdAt" \in DOMAIN s THEN [t EXCEPT !.createdAt = StringifyTime(@)] ELSE t

\* what globalState keeps of the sessions handed to update()
Stringify(sess) == [i \in 1..Len(sess) |-> StringifySession(sess[i])]

\* ReviveTime with a slip: the stored string is kept as it is
ReviveTime_KeepsString(v) == v

\* lines 514-517 and 520-523: v instanceof Date ? v : new Date(v)
ReviveTime(v) == IF v.type = "Date" THEN v ELSE DateValue(DateParse(v.text))

ReviveMessage(m) ==
  IF "timestamp" \in DOMAIN m THEN [m EXCEPT !.timestamp = ReviveTime(@)] ELSE m

ReviveSession(s) ==
  LET t == [s EXCEPT !.messages = [i \in 1..Len(s.messages) |-> ReviveMessage(s.messages[i])]]
  IN IF "createdAt" \in DOMAIN s THEN [t EXCEPT !.createdAt = ReviveTime(@)] ELSE t

\* loadChatHistory, lines 505-534: the sessions and the current session id
loadChatHistory(saved) ==
  [sessions |-> [i \in 1..Len(saved) |-> ReviveSession(saved[i])],
   cur |-> (IF Len(saved) > 0 THEN saved[1].id ELSE 0)]

\* number of extension hosts started after the first
MaxRestarts == 1

\* Restart with a slip: the new host reads the sessions and keeps the
\* current session id of the old one
Restart_KeepsCurrent ==
  /\ restarts < MaxRestarts
  /\ Quiet
  /\ restarts' = restarts + 1
  /\ sessions' = loadChatHistory(Stringify(storage)).sessions
  /\ abortController' = 0
  /\ attachedContext' = <<>>
  /\ UNCHANGED <<currentSessionId, nextId, storage, aborted, pc, message, signal,
                 prompt, outcome, posted, stopped, sent, ops, turnVars, outerVars, streamVars, contextVars>>

\* the extension host ends while no call is running, and a new one starts:
\* the fields are initialised (lines 21-26, 536) and the constructor
\* (lines 28-33) loads the stored sessions
Restart ==
  /\ restarts < MaxRestarts
  /\ Quiet
  /\ restarts' = restarts + 1
  /\ \E st \in {loadChatHistory(Stringify(storage))} :
       /\ sessions' = st.sessions
       /\ currentSessionId' = st.cur
  /\ abortController' = 0
  /\ attachedContext' = <<>>
  /\ UNCHANGED <<nextId, storage, aborted, pc, message, signal, prompt, outcome,
                 posted, stopped, sent, ops, turnVars, outerVars, streamVars, contextVars>>

\* the times new Date() gave
Times == {0, 1042, 59999}

\* a session with one exchange, as addUserMessage and addAssistantMessage
\* make it, with its time fields
TimedSession(id, created, asked, answered) ==
  [id |-> id, title |-> T_hi, createdAt |-> DateValue(created),
   messages |-> << [role |-> "user", content |-> T_hi, turn |-> 0,
                    timestamp |-> DateValue(asked)],
                   [role |-> "assistant", content |-> T_ok, turn |-> 0,
                    timestamp |-> DateValue(answered)] >>]

\* the session lists a host is restarted with
TimedLists ==
  { <<TimedSession(1, a, b, c)>> : a \in Times, b \in Times, c \in Times }
    \cup { <<TimedSession(2, a, b, c), TimedSession(1, 0, 0, 1042)>> :
             a \in Times, b \in Times, c \in Times }

\* a host that holds, and has saved, a list of sessions
PersistInit ==
  /\ \E saved \in TimedLists : ChatStart([saved |-> saved, context |-> <<>>])
  /\ StreamIdle /\ ContextIdle /\ FirstHost

PersistNext == Restart

PersistSpec == PersistInit /\ [][PersistNext]_vars

(* -------------------------------------------------------- session store *)
\* The session store under the turns of a user who submits when no turn is
\* in flight, the session requests of the webview, and a restart.

\* a second stored session, newer than StoredSession
StoredSession2 ==
  [id |-> 2, title |-> T_ok,
   messages |-> << [role |-> "user", content |-> T_ok, turn |-> 0],
                   [role |-> "assistant", content |-> T_hi, turn |-> 0] >>]

\* messages of exactly TitleMax characters and of one more
T_50 == [i \in 1..TitleMax |-> "x"]
T_51 == T_50 \o <<"y">>

StoreTexts == {T_hi, T_50, T_51}

\* the body of a response with an answer
StoreDatas == {[kind |-> "content", content |-> T_ok]}

\* a fresh install, or a stored history of two sessions
StoreStarts ==
  { [saved |-> <<>>, context |-> <<>>],
    [saved |-> <<StoredSession2, StoredSession>>, context |-> <<>>] }

StoreInit ==
  /\ \E start \in StoreStarts : ChatStart(start)
  /\ StreamIdle /\ ContextIdle /\ FirstHost

StoreNext ==
  \/ \E r \in Req, text \in StoreTexts : SendMessage(r, text)
  \/ \E r \in Req : ApiKeyFound(r)
  \/ \E r \in Req : FetchRejects(r)
  \/ \E r \in Req : FetchOk(r)
  \/ \E r \in Req, data \in StoreDatas : JsonResolves(r, data)
  \/ StartNewChat
  \/ \E sessionId \in 1..nextId : SelectSession(sessionId)
  \/ ClearHistory
  \/ Restart

StoreSpec == StoreInit /\ [][StoreNext]_vars

(* ------------------------------------------------- inline completions *)
\* provideInlineCompletionItems (completionProvider.ts) is called by the
\* editor whenever the text changes; calls overlap at the debounce timer
\* and at the awaits of its callback. The prompt the callback builds goes
\* to the transport only and is left out.

\* \w of the regular expression of cleanResponse
WordChars ==
  {"a", "b", "c", "d", "e", "f", "g", "h", "i", "j", "k", "l", "m", "n", "o", "p",
   "q", "r", "s", "t", "u", "v", "w", "x", "y", "z",
   "A", "B", "C", "D", "E", "F", "G", "H", "I", "J", "K", "L", "M", "N", "O", "P",
   "Q", "R", "S", "T", "U", "V", "W", "X", "Y", "Z",
   "0", "1", "2", "3", "4", "5", "6", "7", "8", "9", "_"}

Uppers == <<"A", "B", "C", "D", "E", "F", "G", "H", "I", "J", "K", "L", "M",
            "N", "O", "P", "Q", "R", "S", "T", "U", "V", "W", "X", "Y", "Z">>
Lowers == <<"a", "b", "c", "d", "e", "f", "g", "h", "i", "j", "k", "l", "m",
            "n", "o", "p", "q", "r", "s", "t", "u", "v", "w", "x", "y", "z">>

\* the letter as the flag i of a regular expression compares it
LowerOf(c) ==
  IF \E i \in 1..Len(Uppers) : Uppers[i] = c
    THEN Lowers[CHOOSE i \in 1..Len(Uppers) : Uppers[i] = c]
    ELSE c

ToLower(s) == [i \in 1..Len(s) |-> LowerOf(s[i])]

RECURSIVE DropWord(_)
DropWord(s) ==
  IF s # <<>> /\ Head(s) \in WordChars THEN DropWord(Tail(s)) ELSE s

\* response.replace of line 135: every code fence goes, with the word that
\* follows it
RECURSIVE StripFences(_)
StripFences(s) ==
  IF s = <<>> THEN <<>>
  ELSE IF StartsWith(s, S_Fence)
    THEN StripFences(DropWord(SubSeq(s, Len(S_Fence) + 1, Len(s))))
    ELSE <<Head(s)>> \o StripFences(Tail(s))

S_Here == <<"H", "e", "r", "e">>
S_This == <<"T", "h", "i", "s">>
S_The == <<"T", "h", "e">>
S_Note == <<"N", "o", "t", "e", ":">>
S_Explanation == <<"e", "x", "p", "l", "a", "n", "a", "t", "i", "o", "n", ":">>
S_Example == <<"e", "x", "a", "m", "p", "l", "e", ":">>
S_Output == <<"o", "u", "t", "p", "u", "t", ":">>

\* the test of the filter of lines 139-148
IsCodeLine(line) ==
  LET trimmed == Trim(line)
  IN /\ ~StartsWith(trimmed, S_Here)
     /\ ~StartsWith(trimmed, S_This)
     /\ ~StartsWith(trimmed, S_The)
     /\ ~StartsWith(trimmed, S_Note)
     /\ ~StartsWith(ToLower(trimmed), S_Explanation)
     /\ ~StartsWith(ToLower(trimmed), S_Example)
     /\ ~StartsWith(ToLower(trimmed), S_Output)

\* cleanResponse, lines 133-151
cleanResponse(response) ==
  Trim(Join(SelectSeq(SplitLines(StripFences(response)), IsCodeLine), S_NL))

\* the text of the line up to the cursor: a comment too short to be an
\* instruction, a comment, and code
L_short == <<"/", "/", " ", "a">>
L_comment == <<"/", "/", " ", "s", "o", "r", "t">>
L_code == <<"x", " ", "=", " ">>

LinePrefixes == {L_short, L_comment, L_code}

S_Slashes == <<"/", "/">>
S_Hash == <<"#">>
S_SlashStar == <<"/", "*">>

\* lines 42-47
IsPromptRequest(linePrefix) ==
  \/ StartsWith(Trim(linePrefix), S_Slashes)
  \/ StartsWith(Trim(linePrefix), S_Hash)
  \/ StartsWith(Trim(linePrefix), S_SlashStar)

MinPromptLength == 5

\* what getCompletion returns: nothing, blanks, code, code in a fence, and
\* an explanation
R_code == <<"x", "+", "+">>
R_fenced == S_Fence \o <<"t", "s", "\n">> \o R_code \o <<"\n">> \o S_Fence
R_explained == <<"O", "U", "T", "P", "U", "T", ":", " ", "1">>

Completions == {<<>>, <<" ">>, R_code, R_fenced, R_explained}

\* the call a new provideInlineCompletionItems becomes
IsNextCompletion(c) ==
  completions[c].pc = "idle" /\ \A q \in 1..(c - 1) : completions[q].pc # "idle"

\* resolve(...) of the promise of call c
Resolved(c, result, text) ==
  completions' = [completions EXCEPT ![c] = [pc |-> "done", result |-> result, text |-> text]]

\* provideInlineCompletionItems, lines 16-28 and 97: when completions are
\* off the call returns undefined; otherwise clearTimeout takes the timer
\* of the call before, if it has not fired, and a new timer is set
ProvideInlineCompletionItems(c, enabled) ==
  /\ IsNextCompletion(c)
  /\ IF ~enabled
       THEN /\ Resolved(c, "undefined", <<>>)
            /\ UNCHANGED debounceTimer
       ELSE /\ debounceTimer' = c
            /\ completions' =
                 [q \in CompletionCall |->
                    IF q = c THEN [pc |-> "timer", result |-> "pending", text |-> <<>>]
                    ELSE IF q = debounceTimer /\ completions[q].pc = "timer"
                      THEN [completions[q] EXCEPT !.pc = "cleared"]
                      ELSE completions[q]]
  /\ UNCHANGED <<chatVars, streamVars, contextVars, hostVars, turnVars, viewVars>>

\* the timer of call c fires after 500 ms: lines 29-31, up to the await of
\* secrets.get
TimerFires(c) ==
  /\ completions[c].pc = "timer"
  /\ completions' = [completions EXCEPT ![c].pc = "secret"]
  /\ UNCHANGED <<debounceTimer, chatVars, streamVars, contextVars, hostVars, turnVars, viewVars>>

\* secrets.get resolves: lines 32-77, up to the await of getCompletion
SecretResolves(c, apiKey, linePrefix) ==
  /\ completions[c].pc = "secret"
  /\ IF ~apiKey
       THEN Resolved(c, "undefined", <<>>)
     ELSE IF IsPromptRequest(linePrefix) /\ Len(Trim(linePrefix)) < MinPromptLength
       THEN Resolved(c, "undefined", <<>>)
       ELSE completions' = [completions EXCEPT ![c].pc = "getCompletion"]
  /\ UNCHANGED <<debounceTimer, chatVars, streamVars, contextVars, hostVars, turnVars, viewVars>>

\* secrets.get rejects: the catch block, lines 93-96
SecretRejects(c) ==
  /\ completions[c].pc = "secret"
  /\ Resolved(c, "undefined", <<>>)
  /\ UNCHANGED <<debounceTimer, chatVars, streamVars, contextVars, hostVars, turnVars, viewVars>>

\* getCompletion resolves: lines 79-92
GetCompletionResolves(c, completion) ==
  /\ completions[c].pc = "getCompletion"
  /\ IF Trim(completion) # <<>> /\ cleanResponse(completion) # <<>>
       THEN Resolved(c, "items", cleanResponse(completion))
       ELSE Resolved(c, "undefined", <<>>)
  /\ UNCHANGED <<debounceTimer, chatVars, streamVars, contextVars, hostVars, turnVars, viewVars>>

\* getCompletion rejects (fetch fails, the status is not a success, the
\* body is not JSON): the catch block, lines 93-96
GetCompletionRejects(c) ==
  /\ completions[c].pc = "getCompletion"
  /\ Resolved(c, "undefined", <<>>)
  /\ UNCHANGED <<debounceTimer, chatVars, streamVars, contextVars, hostVars, turnVars, viewVars>>

CompletionInit == ChatQuiet /\ StreamIdle /\ ContextIdle /\ FirstHost

CompletionNext ==
  \/ \E c \in CompletionCall, enabled \in BOOLEAN : ProvideInlineCompletionItems(c, enabled)
  \/ \E c \in CompletionCall : TimerFires(c)
  \/ \E c \in CompletionCall, apiKey \in BOOLEAN, linePrefix \in LinePrefixes :
       SecretResolves(c, apiKey, linePrefix)
  \/ \E c \in CompletionCall : SecretRejects(c)
  \/ \E c \in CompletionCall, completion \in Completions : GetCompletionResolves(c, completion)
  \/ \E c \in CompletionCall : GetCompletionRejects(c)

CompletionSpec == CompletionInit /\ [][CompletionNext]_vars

\* a timer that is set and not cleared fires, and the secret store and
\* getCompletion settle the promises they hand out
CompletionAdvances(c) ==
  \/ TimerFires(c)
  \/ \E apiKey \in BOOLEAN, linePrefix \in LinePrefixes : SecretResolves(c, apiKey, linePrefix)
  \/ SecretRejects(c)
  \/ \E completion \in Completions : GetCompletionResolves(c, completion)
  \/ GetCompletionRejects(c)

CompletionLiveSpec == CompletionSpec /\ \A c \in CompletionCall : WF_vars(CompletionAdvances(c))

(* ------------------------------------------------------- chat webview *)
\* chat-view/script.js: the script of the chat webview. It posts messages
\* to the extension and handles the ones the extension posts to it.

ViewMsg(dir, type) == [dir |-> dir, type |-> type]

\* the types of the messages that the extension posts to the webview
\* (chatProvider.ts lines 121, 130, 163, 175, 180, 184, 270, 352, 436, 473,
\* 488, 559, 741, 999)
ExtensionPosts ==
  {"error", "showTyping", "hideTyping", "responseStopped", "updateChat",
   "streamStart", "streamChunk", "streamEnd", "contextAttached"}

\* setGeneratingState and showTypingIndicator, as far as the flags go
Flags(generating, typing) ==
  /\ isGenerating' = generating
  /\ isTyping' = typing

\* stopGeneration(), lines 148-152
ViewStopGeneration ==
  /\ viewLog' = Append(viewLog, ViewMsg("out", "stopGeneration"))
  /\ Flags(FALSE, FALSE)

\* ViewSendMessage with a slip: the flags are not looked at
ViewSendMessage_Unguarded(value) ==
  /\ Len(viewLog) < MaxEvents
  /\ IF Trim(value) = <<>>
       THEN UNCHANGED viewVars
       ELSE /\ viewLog' = Append(viewLog, ViewMsg("out", "sendMessage"))
            /\ Flags(TRUE, TRUE)
  /\ UNCHANGED <<chatVars, streamVars, contextVars, hostVars, turnVars,
                 completionVars>>

\* sendMessage(), lines 128-146: the click on the send button (line 93) and
\* the Enter key (lines 120-125); value is what the input box holds
ViewSendMessage(value) ==
  /\ Len(viewLog) < MaxEvents
  /\ IF isGenerating
       THEN ViewStopGeneration
       ELSE IF Trim(value) = <<>> \/ isTyping
              THEN UNCHANGED viewVars
              ELSE /\ viewLog' = Append(viewLog, ViewMsg("out", "sendMessage"))
                   /\ Flags(TRUE, TRUE)
  /\ UNCHANGED <<chatVars, streamVars, contextVars, hostVars, turnVars,
                 completionVars>>

\* handleVSCodeMessage, lines 677-744
HandleVSCodeMessage(type, showTyping) ==
  /\ Len(viewLog) < MaxEvents
  /\ viewLog' = Append(viewLog, ViewMsg("in", type))
  /\ CASE type \in {"response", "error", "hideTyping", "responseStopped"} ->
            Flags(FALSE, FALSE)
       [] type = "streamStart" -> Flags(TRUE, FALSE)
       [] type = "streamEnd" -> Flags(FALSE, isTyping)
       [] type = "showTyping" -> Flags(TRUE, TRUE)
       [] type = "clearMessages" -> Flags(FALSE, isTyping)
       [] type = "updateChat" -> Flags(isGenerating, showTyping \/ isTyping)
       [] OTHER -> Flags(isGenerating, isTyping)
  /\ UNCHANGED <<chatVars, streamVars, contextVars, hostVars, turnVars,
                 completionVars>>

WebviewInit == ChatQuiet /\ StreamIdle /\ ContextIdle /\ FirstHost

\* updateWebview is always called without its argument (chatProvider.ts
\* lines 98, 207, 239, 260, 278, 337), so showTyping is false (line 341)
WebviewNext ==
  \/ \E value \in Texts : ViewSendMessage(value)
  \/ \E type \in ExtensionPosts : HandleVSCodeMessage(type, FALSE)

WebviewSpec == WebviewInit /\ [][WebviewNext]_vars

(* ------------------------------------------------- vocabulary of claims *)
\* the handleUserMessage call of r has started and not returned
Active(r) == pc[r] \in {"getApiKey", "fetch", "json"}

\* the engine awaits a response / is ready
AwaitingResponse == \E r \in Req : Active(r)
Ready == ~AwaitingResponse /\ abortController = 0

\* some message of turn r is in a list of sessions
InSessions(sess, r) ==
  \E i \in 1..Len(sess) : \E k \in 1..Len(sess[i].messages) :
    sess[i].messages[k].turn = r

\* how many messages of a type were posted on behalf of r
Count(r, type) == Cardinality({i \in 1..Len(posted[r]) : posted[r][i].type = type})

\* the events by which the presentation layer sees a response: a delta, the
\* end of the stream, and the refreshed chat carrying the turn's messages
ResponseEvents == {"streamChunk", "streamEnd", "updateChat", "response"}

IsPrefix(p, s) == Len(p) <= Len(s) /\ SubSeq(s, 1, Len(p)) = p
IsSuffix(p, s) == Len(p) <= Len(s) /\ SubSeq(s, Len(s) - Len(p) + 1, Len(s)) = p

(* ----------------------------------------------------------------- C1 *)
\* C1: at most one transport request of the engine is in flight (Sending or
\* Streaming) at any time.
C1_SingleFlight == Cardinality({r \in Req : Pending(r)}) <= 1

(* ----------------------------------------------------------------- C2 *)
\* C2: a turn for which cancel() was issued never reaches history: no
\* message of that turn is in any session.
C2_CancelledNeverInHistory ==
  \A r \in stopped : ~InSessions(sessions, r) /\ ~InSessions(storage, r)

(* ----------------------------------------------------------------- C3 *)
\* C3: once the stopped event of a request has been posted, no chunk,
\* stream-end or completion event of that request is posted after it.
C3_CancelTerminal ==
  \A r \in Req : \A i, j \in 1..Len(posted[r]) :
    (i < j /\ posted[r][i].type = "responseStopped")
      => posted[r][j].type \notin ResponseEvents

(* ----------------------------------------------------------------- C4 *)
\* C4: a turn ended by cancel() is reported by a stopped event and never by
\* an error event.
C4_CancelNotError ==
  \A r \in stopped : Count(r, "responseStopped") >= 1 /\ Count(r, "error") = 0

(* ----------------------------------------------------------------- C5 *)
\* C5 as stated: while the engine is AwaitingResponse a submit is rejected:
\* no call starts, no controller is aborted or replaced.
C5_SubmitRejectedWhileAwaiting ==
  [][ AwaitingResponse =>
        /\ \A r \in Req : pc[r] = "idle" => pc'[r] # "getApiKey"
        /\ (\E r \in Req : pc[r] = "idle" /\ pc'[r] # "idle")
             => (aborted' = aborted /\ abortController' = abortController) ]_vars

\* C5 (amended): a submit with non-empty text issued while the engine is
\* AwaitingResponse is accepted, last request wins: it calls abort() on the
\* controller the engine holds (if it holds one), installs its own fresh
\* controller and starts its own credential lookup, without posting
\* anything, touching history, or being queued or merged into another call.
C5_SubmitSupersedes ==
  [][ \A r \in Req :
        (AwaitingResponse /\ pc[r] = "idle" /\ Trim(message'[r]) # <<>>)
          => /\ pc'[r] = "getApiKey"
             /\ abortController' = r
             /\ aborted' = (IF abortController = 0 THEN aborted
                            ELSE aborted \cup {abortController})
             /\ \A q \in Req \ {r} : pc'[q] = pc[q] /\ message'[q] = message[q]
             /\ posted' = posted
             /\ sessions' = sessions /\ storage' = storage ]_vars

\* a second call was started while the first was awaiting its response, and
\* the first call's controller is aborted
C5_Witness ==
  \E r, q \in Req :
    /\ r # q /\ pc[r] = "fetch" /\ signal[r] = r /\ r \in aborted
    /\ pc[q] = "getApiKey" /\ abortController = q

(* ----------------------------------------------------------------- C6 *)
\* C6: a failed turn posts exactly one error event, commits no message to
\* any session or to the store, and the step that reports the failure
\* leaves sessions and store as they were.
C6_FailureCommitsNothing ==
  /\ [](\A r \in Req :
          outcome[r] = "error"
            => /\ Count(r, "error") = 1
               /\ ~InSessions(sessions, r)
               /\ ~InSessions(storage, r))
  /\ [][ \A r \in Req :
           (outcome[r] = "none" /\ outcome'[r] = "error")
             => (sessions' = sessions /\ storage' = storage
                 /\ currentSessionId' = currentSessionId) ]_vars

\* every kind of failure has happened next to a completed turn: a missing
\* credential, and a transport failure after the request was sent
C6_Witness ==
  \E r, q \in Req :
    /\ outcome[r] = "error" /\ r \in sent
    /\ outcome[q] = "completed" /\ InSessions(sessions, q)

(* ----------------------------------------------------------------- C7 *)
\* C7: when the credential lookup returns no credential the call posts one
\* error event, hands nothing to the transport, appends nothing and leaves
\* no controller in the engine.
C7_CredentialMissing ==
  /\ [](\A r \in Req :
          (outcome[r] = "error" /\ posted[r] # <<>>
             /\ posted[r][Len(posted[r])] = Msg("error", r, E_NoKey))
            => /\ r \notin sent
               /\ Count(r, "error") = 1
               /\ Count(r, "showTyping") = 0
               /\ ~InSessions(sessions, r) /\ ~InSessions(storage, r))
  /\ [][ \A r \in Req :
           (pc[r] = "getApiKey" /\ pc'[r] = "done" /\ Count(r, "showTyping")' = 0)
             => /\ posted'[r] = Append(posted[r], Msg("error", r, E_NoKey))
                /\ abortController' = 0
                /\ sent' = sent
                /\ sessions' = sessions /\ storage' = storage ]_vars

\* a lookup that found no credential ended its call while the engine held
\* the call's controller
C7_Witness ==
  \E r \in Req :
    /\ outcome[r] = "error" /\ posted[r] = <<Msg("error", r, E_NoKey)>>
    /\ abortController = 0 /\ ~AwaitingResponse

(* ----------------------------------------------------------------- C8 *)
\* the responses queryPerplexityAPI can return in this model
Responses == {T_ok, S_NoResponse}

\* the messages of the session with this id, none when there is no such
\* session
MessagesOf(sess, id) ==
  IF FindSession(sess, id) = 0 THEN <<>> ELSE sess[FindSession(sess, id)].messages

\* C8: the step that completes a turn appends exactly two messages to the
\* current session, the user message with the raw submitted text and then
\* the assistant message with the response, and changes no other session;
\* the prompt handed to the transport is the raw text when no context is
\* attached and otherwise the context block followed by the raw text.
C8_SuccessAppendsRawThenResponse ==
  /\ [][ \A r \in Req :
           (outcome[r] = "none" /\ outcome'[r] = "completed")
             => LET old == MessagesOf(sessions, currentSessionId')
                    new == MessagesOf(sessions', currentSessionId')
                IN /\ Len(new) = Len(old) + 2
                   /\ SubSeq(new, 1, Len(old)) = old
                   /\ new[Len(old) + 1] =
                        [role |-> "user", content |-> message[r], turn |-> r]
                   /\ new[Len(old) + 2].role = "assistant"
                   /\ new[Len(old) + 2].turn = r
                   /\ new[Len(old) + 2].content \in Responses
                   /\ \A i \in 1..Len(sessions) :
                        sessions[i].id # currentSessionId'
                          => \E k \in 1..Len(sessions') : sessions'[k] = sessions[i]
                   /\ Len(sessions') <= Len(sessions) + 1
                   /\ storage' = sessions' ]_vars
  /\ [][ \A r \in Req :
           (pc[r] = "getApiKey" /\ pc'[r] = "fetch")
             => IF attachedContext = <<>>
                  THEN prompt'[r] = message[r]
                  ELSE /\ IsPrefix(S_ContextHdr, prompt'[r])
                       /\ IsSuffix(S_UserQuestion \o message[r], prompt'[r])
                       /\ Len(prompt'[r]) >
                            Len(S_ContextHdr) + Len(S_UserQuestion) + Len(message[r]) ]_vars

\* a turn sent with context attached has completed and its two messages are
\* the last two of the current session
C8_Witness ==
  \E r \in Req :
    /\ outcome[r] = "completed"
    /\ attachedContext # <<>>
    /\ Count(r, "showTyping") = 1
    /\ LET m == MessagesOf(sessions, currentSessionId)
       IN /\ Len(m) >= 2
          /\ m[Len(m) - 1] = [role |-> "user", content |-> message[r], turn |-> r]
          /\ m[Len(m)].turn = r

(* ----------------------------------------------------------------- C9 *)
\* user, assistant, user, assistant, ...
Alternates(msgs) ==
  /\ Len(msgs) % 2 = 0
  /\ \A k \in 1..Len(msgs) :
       msgs[k].role = (IF k % 2 = 1 THEN "user" ELSE "assistant")

\* C9: every session, in memory and in the store, holds only completed
\* exchanges: an even number of messages alternating user, assistant.
C9_OnlyCompletedExchanges ==
  /\ \A i \in 1..Len(sessions) : Alternates(sessions[i].messages)
  /\ \A i \in 1..Len(storage) : Alternates(storage[i].messages)

\* two turns have completed around a session operation, and history holds
\* an exchange of each
C9_Witness ==
  /\ \A r \in Req : outcome[r] = "completed" /\ InSessions(sessions, r)
  /\ ops > 0

(* ---------------------------------------------------------------- C10 *)
\* C10: every accepted submit eventually ends its call (by completion,
\* cancellation or failure); when no call is left the engine holds no
\* controller, i.e. it is Ready; and a submit issued while Ready is accepted
\* and starts its own request.
C10_ReturnsToReady ==
  /\ \A r \in Req : Active(r) ~> (pc[r] = "done" /\ outcome[r] \in {"completed", "stopped", "error"})
  /\ [](~AwaitingResponse => abortController = 0)
  /\ [][ \A r \in Req :
           (Ready /\ pc[r] = "idle" /\ Trim(message'[r]) # <<>>)
             => (pc'[r] = "getApiKey" /\ abortController' = r /\ aborted' = aborted) ]_vars

\* a turn has ended, the engine was Ready, and the next submit has started
\* its own request
C10_Witness ==
  \E r, q \in Req :
    /\ r < q
    /\ outcome[r] \in {"completed", "stopped", "error"}
    /\ pc[q] = "fetch" /\ signal[q] = q /\ abortController = q

(* ------------------------------------------------ stream vocabulary *)
ChunkTypes == {"streamChunk", "onChunk"}
EndTypes == {"streamEnd", "onComplete"}

\* the deltas forwarded so far, in the order of forwarding
RECURSIVE ForwardedOf(_)
ForwardedOf(msgs) ==
  IF msgs = <<>> THEN <<>>
  ELSE IF Head(msgs).type \in ChunkTypes
    THEN <<Head(msgs).content>> \o ForwardedOf(Tail(msgs))
    ELSE ForwardedOf(Tail(msgs))

Forwarded == ForwardedOf(streamPosted)

\* the deltas of the delta frames of fs, in order
RECURSIVE DeltasOf(_)
DeltasOf(fs) ==
  IF fs = <<>> THEN <<>>
  ELSE IF Head(fs).kind = "delta"
    THEN <<Head(fs).content>> \o DeltasOf(Tail(fs))
    ELSE DeltasOf(Tail(fs))

\* the frames of fs that precede its first [DONE] frame
RECURSIVE BeforeDone(_)
BeforeDone(fs) ==
  IF fs = <<>> \/ Head(fs).kind = "done" THEN <<>>
  ELSE <<Head(fs)>> \o BeforeDone(Tail(fs))

\* [DONE] is the last frame of fs, and the only [DONE]
DoneIsLast(fs) == fs # <<>> /\ BeforeDone(fs) = SubSeq(fs, 1, Len(fs) - 1)

\* what the reader forwards when it gets the whole stream in one chunk
WholeDeltas ==
  IF decoder = "chat" THEN ChatDeltas(SplitLines(WireText(frames)))
  ELSE CommandDeltas(SplitLines(WireText(frames)))

RECURSIVE IsSubsequence(_, _)
IsSubsequence(a, b) ==
  IF a = <<>> THEN TRUE
  ELSE IF b = <<>> THEN FALSE
  ELSE IF Head(a) = Head(b) THEN IsSubsequence(Tail(a), Tail(b))
  ELSE IsSubsequence(a, Tail(b))

(* ---------------------------------------------------------------- C11 *)
\* C11: a stream cut into two chunks at any byte yields the same deltas as
\* the stream handed out in one chunk (a cut frame is kept until its newline
\* has arrived, it is neither dropped nor parsed early).
C11_Reassembly ==
  (streaming = "ended" /\ ~(\E f \in 1..Len(frames) : frames[f].kind = "done"))
    => Forwarded = WholeDeltas

(* ---------------------------------------------------------------- C12 *)
\* C12: of a stream of N delta frames and M malformed frames that ends with
\* [DONE], cut into chunks in any way, exactly the N deltas are emitted,
\* whatever M is.
C12_MalformedSkipped ==
  (streaming = "ended" /\ DoneIsLast(frames)) => Forwarded = DeltasOf(frames)

(* ---------------------------------------------------------------- C13 *)
\* C13: no delta of a frame that comes after [DONE], in the same chunk or in
\* a later one, is emitted or added to the assembled response.
C13_InertAfterDone ==
  /\ IsSubsequence(Forwarded, DeltasOf(BeforeDone(frames)))
  /\ Len(fullResponse) <= Len(Concat(DeltasOf(BeforeDone(frames))))

(* ---------------------------------------------------------------- C14 *)
\* C14: the chunk events come in the arrival order of their deltas, each
\* delta is forwarded once, the assembled result is the concatenation of
\* exactly the forwarded deltas in that order, and the end notification
\* comes once, after the last chunk event, when the stream has ended.
C14_OrderedExactlyOnce ==
  /\ IsSubsequence(Forwarded, DeltasOf(frames))
  /\ fullResponse = Concat(Forwarded)
  /\ \A i \in 1..Len(streamPosted) :
       streamPosted[i].type \in EndTypes
         => (streaming = "ended" /\ i = Len(streamPosted))
  /\ streaming = "ended"
       => (streamPosted # <<>> /\ streamPosted[Len(streamPosted)].type \in EndTypes)

\* a stream has ended after both of its deltas were forwarded, the second
\* one in a chunk of its own
C14_Witness ==
  /\ streaming = "ended"
  /\ reads = 2
  /\ Forwarded = <<D_a, D_b>>
  /\ fullResponse = <<"a", "b">>

(* ---------------------------------------------------------------- C15 *)
\* C15: no two attached items of type file have the same path, whatever the
\* interleaving of insertions whose reads are pending.
C15_NoDuplicatePaths ==
  \A i, j \in 1..Len(attachedContext) :
    (i # j /\ attachedContext[i].type = "file" /\ attachedContext[j].type = "file")
      => attachedContext[i].path # attachedContext[j].path

(* ---------------------------------------------------------------- C18 *)
\* every time field of the sessions is a Date
AllDates(sess) ==
  \A i \in 1..Len(sess) :
    /\ sess[i].createdAt.type = "Date"
    /\ \A k \in 1..Len(sess[i].messages) : sess[i].messages[k].timestamp.type = "Date"

\* C18: the sessions a new host loads are the sessions that were saved (the
\* same sessions in the same order, with the same ids, titles and messages),
\* and every createdAt and timestamp is a Date again, not the string it was
\* stored as.
C18_RoundTrip ==
  restarts > 0 => (sessions # <<>> /\ sessions = storage /\ AllDates(sessions))

\* a host has loaded two sessions, the first one created at 00:00:59.999
C18_Witness ==
  /\ restarts = 1
  /\ Len(sessions) = 2
  /\ sessions[1].createdAt = DateValue(59999)
  /\ sessions[1].messages[2].timestamp = DateValue(1042)

(* ------------------------------------------------- store vocabulary *)
\* the ids of a list of sessions, in the order of the list
IdsOf(sess) == [i \in 1..Len(sess) |-> sess[i].id]

\* this step is the one in which the turn of r is saved to history
Completes(r) == outcome[r] # "completed" /\ outcome'[r] = "completed"

\* this step is the start of a new extension host
Restarts == restarts' = restarts + 1

NoEmptySession(sess) == \A i \in 1..Len(sess) : Len(sess[i].messages) >= 1

(* ---------------------------------------------------------------- C16 *)
\* C16: startNewChat changes the current session id to a fresh id that names
\* no session record and leaves the list of sessions (and what is stored)
\* as it is; at all times every session in the list and in the store has at
\* least one message.
C16_LazyMaterialization ==
  /\ [](NoEmptySession(sessions) /\ NoEmptySession(storage))
  /\ [][StartNewChat =>
          /\ sessions' = sessions
          /\ storage' = storage
          /\ currentSessionId' # currentSessionId
          /\ currentSessionId' # 0
          /\ FindSession(sessions', currentSessionId') = 0]_vars

\* a new chat was started over a history of two sessions and no message has
\* been sent in it
C16_Witness ==
  /\ ops = 1
  /\ Len(sessions) = 2
  /\ currentSessionId # 0
  /\ FindSession(sessions, currentSessionId) = 0

(* ---------------------------------------------------------------- C17 *)
\* C17: when a turn completes in a session, that session is the first of
\* the list (most recently active first), also when it is an older session
\* that selectSession made current.
C17_MostRecentlyActiveFirst ==
  [][\A r \in Req :
       Completes(r) => (sessions' # <<>> /\ sessions'[1].id = currentSessionId')]_vars

\* C17 (amended): the list is ordered most recently created first: a newly
\* materialized session is inserted at the front, and no step other than
\* clearHistory changes which sessions are listed or their order; a turn
\* that completes in a listed session leaves it at its place.
C17_NewestCreatedFirst ==
  [][\/ IdsOf(sessions') = IdsOf(sessions)
     \/ /\ \E r \in Req : Completes(r)
        /\ FindSession(sessions, currentSessionId') = 0
        /\ IdsOf(sessions') = <<currentSessionId'>> \o IdsOf(sessions)
     \/ ClearHistory /\ sessions' = <<>>]_vars

\* a turn has completed in the older of two sessions, which is still the
\* second of the list
C17_Witness ==
  /\ Len(sessions) = 2
  /\ sessions[2].id = 1
  /\ currentSessionId = 1
  /\ \E r \in Req :
       /\ outcome[r] = "completed"
       /\ \E k \in 1..Len(sessions[2].messages) : sessions[2].messages[k].turn = r

(* ---------------------------------------------------------------- C19 *)
\* C19: a restart leaves the current session id as it was, in particular
\* when an older session had been selected or a new chat started.
C19_CurrentRoundTrips ==
  [][Restarts => currentSessionId' = currentSessionId]_vars

\* C19 (amended): only the sessions are stored. After a restart the sessions
\* are the stored ones and the current session id is the id of the first
\* stored session, or unset when none is stored; a selection of an older
\* session, or a new chat, does not survive the restart.
C19_LoadSelectsFirst ==
  [][Restarts =>
       /\ sessions' = storage
       /\ currentSessionId' = (IF storage = <<>> THEN 0 ELSE storage[1].id)]_vars

\* after a turn that completed in the older session (made current by
\* selectSession) a restart has made the newer session current
C19_Witness ==
  /\ restarts = 1
  /\ Len(sessions) = 2
  /\ currentSessionId = 2
  /\ sessions[1].id = 2
  /\ \E r \in Req :
       /\ outcome[r] = "completed"
       /\ \E k \in 1..Len(sessions[2].messages) : sessions[2].messages[k].turn = r

(* ---------------------------------------------------------------- C20 *)
\* the title the claim gives a session whose first user message is text
C20_Title(text) ==
  IF Len(text) <= 50
    THEN text
    ELSE [i \in 1..53 |-> IF i <= 50 THEN text[i] ELSE "."]

\* C20: a turn completing on an empty store makes the list one session
\* long, and at all times the title of every session is its first user
\* message when that has at most 50 characters, else its first 50
\* characters and an ellipsis, whatever messages follow.
C20_TitleFromFirstMessage ==
  /\ [](\A i \in 1..Len(sessions) :
          /\ sessions[i].messages # <<>>
          /\ sessions[i].messages[1].role = "user"
          /\ sessions[i].title = C20_Title(sessions[i].messages[1].content))
  /\ [][\A r \in Req : (Completes(r) /\ sessions = <<>>) => Len(sessions') = 1]_vars

\* a session that began with a message of 51 characters holds a second
\* exchange, begun with another text, and has the cut title
C20_Witness ==
  \E i \in 1..Len(sessions) :
    /\ Len(sessions[i].messages) = 4
    /\ sessions[i].messages[1].content = T_51
    /\ sessions[i].messages[3].content = T_hi
    /\ sessions[i].title = T_50 \o S_Ellipsis

(* ---------------------------------------------------------------- C21 *)
\* C21: clearHistory leaves the list of sessions empty, the current session
\* id unset and the store holding the empty list, and prepares no
\* replacement session: no id is drawn.
C21_ClearAll ==
  [][ClearHistory =>
        /\ sessions' = <<>>
        /\ currentSessionId' = 0
        /\ storage' = <<>>
        /\ nextId' = nextId]_vars

\* a history of two sessions has been cleared
C21_Witness ==
  /\ ops = 1 /\ restarts = 0
  /\ nextId = 3
  /\ sessions = <<>> /\ storage = <<>>
  /\ currentSessionId = 0

(* ---------------------------------------------------------------- C22 *)
\* a line number below ten in decimal
C22_Decimal(n) == <<<<"1">>, <<"2">>, <<"3">>, <<"4">>, <<"5">>, <<"6">>, <<"7">>, <<"8">>, <<"9">>>>[n]

\* the labelled fenced block of one item, as the claim describes it
C22_Block(item) ==
  IF item.type = "file"
    THEN <<"F", "i", "l", "e", ":", " ">> \o item.name \o <<"\n", "BQ", "BQ", "BQ">> \o item.language \o <<"\n">>
           \o item.content \o <<"\n", "BQ", "BQ", "BQ">>
    ELSE <<"S", "e", "l", "e", "c", "t", "e", "d", " ", "c", "o", "d", "e", " ", "f", "r", "o", "m", " ">> \o item.fileName \o <<" ", "(", "l", "i", "n", "e", "s", " ">>
           \o C22_Decimal(item.startLine) \o <<"-">> \o C22_Decimal(item.endLine)
           \o <<")", ":", "\n", "BQ", "BQ", "BQ", "\n">> \o item.content \o <<"\n", "BQ", "BQ", "BQ">>

\* the blocks of items k..Len(items), each but the first after a blank line
RECURSIVE C22_Blocks(_, _)
C22_Blocks(items, k) ==
  IF k > Len(items) THEN <<>>
  ELSE (IF k = 1 THEN <<>> ELSE <<"\n", "\n">>) \o C22_Block(items[k])
         \o C22_Blocks(items, k + 1)

C22_Render(items, userText) ==
  IF items = <<>> THEN userText
  ELSE <<"C", "o", "n", "t", "e", "x", "t", ":", "\n">> \o C22_Blocks(items, 1)
         \o <<"\n", "\n", "U", "s", "e", "r", " ", "Q", "u", "e", "s", "t", "i", "o", "n", ":", " ">> \o userText

\* C22: the prompt handed to the transport is the user text unchanged when
\* nothing is attached; otherwise it is "Context:" and a line break, the
\* labelled fenced blocks of the items in attachment order separated by
\* blank lines, a blank line, "User Question: " and the user text. A
\* selection block names the lines counted from one, both ends included.
C22_Render_Prompt ==
  /\ [][\A r \in Req :
          (pc[r] = "getApiKey" /\ pc'[r] = "fetch")
            => prompt'[r] = C22_Render(attachedContext, message[r])]_vars
  /\ [](\A i \in 1..Len(attachedContext) :
          attachedContext[i].type = "selection"
            => /\ attachedContext[i].startLine = EditorSelection.start + 1
               /\ attachedContext[i].endLine = EditorSelection.end + 1)

\* a message is with the transport whose prompt carries a file added by the
\* picker and, after it, the file and the selection of an auto-detect that
\* overlapped the insertion
C22_Witness ==
  \E r \in Req :
    /\ pc[r] = "fetch"
    /\ Len(attachedContext) = 3
    /\ attachedContext[1].path = P_b_ts
    /\ attachedContext[3].type = "selection"
    /\ Len(prompt[r]) > Len(message[r])

(* ---------------------------------------------------------------- C23 *)
\* some item attached before the step is not attached after it
ItemTakenAway ==
  \E i \in 1..Len(attachedContext) :
    \A k \in 1..Len(attachedContext') : attachedContext'[k] # attachedContext[i]

\* the step is one of a turn: a call starts, moves on or returns, or a
\* controller is aborted
TurnStep == pc' # pc \/ outcome' # outcome \/ aborted' # aborted

\* C23: no step of a turn, however the turn ends (completed, cancelled,
\* failed), changes the attached context items; an item is taken away only
\* by a removeContext request, which takes the items of one id.
C23_ContextPersists ==
  [][ /\ TurnStep => attachedContext' = attachedContext
      /\ ItemTakenAway
           => /\ ~TurnStep
              /\ \E id \in ContextIds : attachedContext' = WithoutId(attachedContext, id) ]_vars

\* a turn sent with the context has completed, another has been cancelled,
\* and the context is attached as it was
C23_Witness ==
  \E r, q \in Req :
    /\ outcome[r] = "completed" /\ r \in sent
    /\ outcome[q] = "stopped" /\ q \in sent
    /\ attachedContext = DetectedContext

(* ---------------------------------------------------------------- C24 *)
\* the events the handleUserMessage call of r has posted, without the
\* responseStopped events (stopGeneration posts those too)
HandlerEvents(r) == SelectSeq(posted[r], LAMBDA m : m.type # "responseStopped")

\* C24 as stated: every accepted submit emits the typing-started event at
\* once, as the first event of the turn, before the credential lookup
\* resolves.
C24_TypingImmediately ==
  \A r \in Req :
    (pc[r] # "idle" /\ outcome[r] # "ignored")
      => (posted[r] # <<>> /\ posted[r][1].type = "showTyping")

\* C24 (amended): an accepted submit emits no typing-started event while
\* its credential lookup is pending; the event is emitted when the lookup
\* resolves with a credential, at the step that prepares the request for the
\* transport, and is the first event the handler of the turn emits; a turn
\* that fails because the credential is missing emits the error event and
\* no typing-started event.
C24_TypingAfterCredential ==
  /\ [](\A r \in Req : pc[r] = "getApiKey" => HandlerEvents(r) = <<>>)
  /\ [][\A r \in Req :
          (pc[r] = "getApiKey" /\ pc'[r] # "getApiKey")
            => \/ /\ posted'[r] = Append(posted[r], Msg("error", r, E_NoKey))
                  /\ r \notin sent'
               \/ /\ Len(posted'[r]) > Len(posted[r])
                  /\ posted'[r][Len(posted[r]) + 1] = Msg("showTyping", r, "")]_vars
  /\ [](\A r \in Req :
          HandlerEvents(r) # <<>>
            => \/ HandlerEvents(r)[1] = Msg("showTyping", r, "")
               \/ HandlerEvents(r) = <<Msg("error", r, E_NoKey)>>)

\* one turn has failed for want of a credential without a typing-started
\* event, and the request of another is with the transport, typing-started
\* being the first event of that turn
C24_Witness ==
  \E r, q \in Req :
    /\ outcome[r] = "error" /\ posted[r] = <<Msg("error", r, E_NoKey)>>
    /\ pc[q] = "fetch" /\ posted[q] = <<Msg("showTyping", q, "")>>

(* ---------------------------------------------------------------- C25 *)
\* every character of the text is white space (the empty text included)
C25_Blank(text) == \A i \in 1..Len(text) : text[i] \in {" ", "\n", "\t", "\r"}

\* C25: a submit whose text is empty or white space only returns at once:
\* it posts nothing, hands nothing to the transport, leaves sessions, store,
\* current session id and context as they are, and neither aborts nor
\* replaces a controller nor touches the call of a request in flight.
C25_BlankSubmitNoOp ==
  [][\A r \in Req :
       (pc[r] = "idle" /\ pc'[r] # "idle" /\ C25_Blank(message'[r]))
         => /\ pc'[r] = "done"
            /\ posted' = posted
            /\ sent' = sent
            /\ sessions' = sessions /\ storage' = storage
            /\ currentSessionId' = currentSessionId
            /\ attachedContext' = attachedContext
            /\ abortController' = abortController
            /\ aborted' = aborted
            /\ \A q \in Req \ {r} :
                 pc'[q] = pc[q] /\ signal'[q] = signal[q] /\ prompt'[q] = prompt[q]]_vars

\* a text of white space was submitted while the request of the submit
\* before it was with the transport, and that request still is, on its own
\* controller
C25_Witness ==
  /\ pc[1] = "fetch" /\ signal[1] = 1
  /\ abortController = 1 /\ 1 \notin aborted
  /\ outcome[2] = "ignored" /\ message[2] = T_blank

(* ---------------------------------------------------------------- C26 *)
\* C26: whenever the request of a call is with the transport and not
\* aborted, the engine holds the controller of that call and the request
\* runs on the signal of that controller, so that stopGeneration aborts it.
C26_CancelEffective ==
  \A r \in Req : Pending(r) => (abortController = r /\ signal[r] = r)

(* ---------------------------------------------------------------- C27 *)
\* how many terminal outcomes were reported for r: stopped events, error
\* events, and the completion (the refreshed chat carrying the exchange)
TerminalEvents(r) ==
  Count(r, "responseStopped") + Count(r, "error")
    + (IF Count(r, "updateChat") > 0 THEN 1 ELSE 0)

\* C27: no turn is reported by more than one terminal outcome event, a
\* cancelled turn by exactly one stopped event and never by a stopped and
\* an error event; a turn that has ended was reported by exactly one.
C27_OneTerminalEvent ==
  \A r \in Req :
    /\ TerminalEvents(r) <= 1
    /\ (pc[r] = "done" /\ outcome[r] # "ignored") => TerminalEvents(r) = 1

(* ---------------------------------------------------------------- C28 *)
\* C28: the step that completes a turn puts its messages into the session
\* that was current when the turn was submitted: the session of that id, or,
\* when no session was current then, a session that did not exist before;
\* never into another session.
C28_AppendedWhereAsked ==
  [][\A r \in Req :
       Completes(r)
         => \A i \in 1..Len(sessions') :
              (\E k \in 1..Len(sessions'[i].messages) : sessions'[i].messages[k].turn = r)
                => IF askedIn[r] # 0
                     THEN sessions'[i].id = askedIn[r]
                     ELSE FindSession(sessions, sessions'[i].id) = 0]_vars

(* ---------------------------------------------------------------- C29 *)
\* C29: a turn whose call was running when clearHistory ran, and which
\* completes while the history is still empty, leaves the list of sessions
\* and the store empty.
C29_ClearedStaysEmpty ==
  [][\A r \in Req :
       (Completes(r) /\ r \in cleared /\ sessions = <<>> /\ storage = <<>>)
         => (sessions' = <<>> /\ storage' = <<>>)]_vars

(* ---------------------------------------------------------------- C30 *)
\* C30: the attached context items have pairwise distinct ids, so that
\* removeContext of an id takes one item away and no other; the file and
\* the selection of one auto-detect have different ids.
C30_DistinctIds ==
  \A i, j \in 1..Len(attachedContext) :
    i # j => attachedContext[i].id # attachedContext[j].id

(* ---------------------------------------------------------------- C31 *)
\* a step of startNewChat or of a selectSession that finds its session: the
\* only steps that refresh the webview and leave a current session id set
\* without touching the sessions
SessionChosen ==
  /\ restarts' = restarts
  /\ sessions' = sessions
  /\ Len(posted'[0]) = Len(posted[0]) + 1
  /\ posted'[0][Len(posted'[0])].type = "updateChat"
  /\ currentSessionId' # 0

\* C31: every step of a running host that changes the sessions list or the
\* messages of a session (addUserMessage, addAssistantMessage, clearHistory)
\* leaves the stored history equal to the sessions as they are after the
\* change; startNewChat and selectSession leave the stored history as it was
C31_StoreConsistency ==
  [][ /\ (restarts' = restarts /\ sessions' # sessions) => storage' = sessions'
      /\ SessionChosen => storage' = storage ]_vars

\* a turn has been saved into a session chosen by startNewChat, a session
\* stored before is still there, and the store holds both
C31_Witness ==
  /\ \E r \in Req : outcome[r] = "completed"
  /\ Len(posted[0]) > 0
  /\ Len(sessions) = 3
  /\ Len(sessions[1].messages) = 2
  /\ storage = sessions

(* ---------------------------------------------------------------- C32 *)
\* the ids of the sessions of the list
Materialized(sess) == {sess[i].id : i \in 1..Len(sess)}

\* the sessions of the list that carry the current session id
CurrentSessions(sess, cur) == {i \in 1..Len(sess) : sess[i].id = cur}

\* C32: selectSession(id) makes id the current session id when id names a
\* session of the list and otherwise changes nothing; it leaves the list as
\* it is, and after it a current session id that names a session of the
\* list names exactly one
C32_SelectSession ==
  [][ \A id \in 1..nextId :
        SelectSession(id) =>
          /\ sessions' = sessions
          /\ IF id \in Materialized(sessions)
               THEN currentSessionId' = id
               ELSE UNCHANGED vars
          /\ currentSessionId' \in Materialized(sessions') =>
                Cardinality(CurrentSessions(sessions', currentSessionId')) = 1 ]_vars

\* the older of two stored sessions has been selected
C32_Witness ==
  /\ Len(sessions) >= 2
  /\ sessions[1].id = 2
  /\ currentSessionId = 1
  /\ ops = 1
  /\ Len(posted[0]) = 1 /\ posted[0][1].type = "updateChat"

(* ---------------------------------------------------------------- C33 *)
\* the events of a response that is being delivered
C33_StreamEvents == {"streamStart", "streamChunk", "streamEnd", "updateChat"}

\* the failure messages that name the status
C33_Naming(status) ==
  CASE status = 401 -> {"API request failed: 401"}
    [] status = 500 -> {"API request failed: 500"}
    [] OTHER -> {}

C34_NoDeltaFromNonString ==
  /\ IsSubsequence(Forwarded, DeltasOf(frames))
  /\ fullResponse = Concat(Forwarded)
  /\ (streaming = "ended" /\ reads = 1) => Forwarded = DeltasOf(frames)

(* ---------------------------------------------------------------- C35 *)
\* C35: handleRemoveContext(id) leaves exactly the items of another id, in
\* the order they had, and no item of that id; when no item has that id the
\* context stays as it is; removing the same id again changes nothing more
C35_RemoveById ==
  [][ \A id \in KnownIds :
        HandleRemoveContext(id) =>
          /\ attachedContext' = SelectSeq(attachedContext, LAMBDA item : item.id # id)
          /\ \A i \in 1..Len(attachedContext') : attachedContext'[i].id # id
          /\ id \notin AttachedIds => attachedContext' = attachedContext
          /\ WithoutId(attachedContext', id) = attachedContext' ]_vars

\* the file item of an auto-detect has been removed and its selection item
\* is still attached
C35_Witness ==
  /\ ops = 1
  /\ \E i \in 1..Len(attachedContext) : attachedContext[i].type = "selection"
  /\ \A i \in 1..Len(attachedContext) : attachedContext[i].type # "file"

(* ---------------------------------------------------------------- C36 *)
\* no turn is in flight: every handleUserMessage call has not started, has
\* returned, or is one that stopGeneration has cancelled
NothingInFlight == \A r \in Req : ~Active(r) \/ r \in stopped

\* C36: while no turn is in flight the engine holds no controller, and a
\* stopGeneration then changes nothing: no stopped event is posted, and the
\* sessions, the current session id and what a later request will find
\* stay as they are
C36_CancelIdleNoOp ==
  /\ [](NothingInFlight => abortController = 0)
  /\ [][ (NothingInFlight /\ (StopGeneration \/ StopGenerationIdle))
           => UNCHANGED vars ]_vars

\* a turn was cancelled and another completed, no call is running, and
\* stopGeneration can be called
C36_Witness ==
  /\ Quiet
  /\ \E r \in Req : outcome[r] = "stopped" /\ r \in stopped
  /\ \E r \in Req : outcome[r] = "completed"
  /\ ENABLED StopGenerationIdle

(* ---------------------------------------------------------------- C37 *)
\* C37: every call of provideInlineCompletionItems that was made has its
\* promise resolved in the end, with items or with undefined, also a call
\* whose timer a later call cleared
C37_EveryCallResolves ==
  \A c \in CompletionCall :
    (completions[c].pc # "idle") ~> (completions[c].result # "pending")

(* ---------------------------------------------------------------- C38 *)
\* the places in what the command did so far where an event of a type is
EventsOf(type) == {i \in 1..Len(streamPosted) : streamPosted[i].type = type}

\* C38: onComplete is called at most once, only when read() has said that
\* the stream is at its end, and after every onChunk; when the request or
\* the stream fails it is not called, and exactly one queryPerplexityAPI
\* request is made, and none otherwise; no onChunk comes after that request
\* or after its answer has been written over the document
C38_CompleteOrFallback ==
  /\ Cardinality(EventsOf("onComplete")) <= 1
  /\ \A i \in EventsOf("onComplete") :
       /\ unread = <<>>
       /\ \A j \in EventsOf("onChunk") : j < i
  /\ streaming = "ended" <=> EventsOf("onComplete") # {}
  /\ IF streaming \in {"fallback", "written", "failed"}
       THEN /\ EventsOf("onComplete") = {}
            /\ Cardinality(EventsOf("queryPerplexityAPI")) = 1
       ELSE EventsOf("queryPerplexityAPI") = {}
  /\ \A i \in EventsOf("queryPerplexityAPI") \cup EventsOf("replace") :
       \A j \in EventsOf("onChunk") : j < i
  /\ Cardinality(EventsOf("replace")) = (IF streaming = "written" THEN 1 ELSE 0)

\* a stream broke after a delta had been handed to onChunk, and the answer
\* of the second request was written
C38_Witness ==
  /\ streaming = "written"
  /\ EventsOf("onChunk") # {}
  /\ Cardinality(EventsOf("queryPerplexityAPI")) = 1
  /\ streamPosted[Len(streamPosted)].type = "replace"

(* ---------------------------------------------------------------- C39 *)
\* the places of the messages of a type that the webview posted
PostedAt(type) ==
  {i \in 1..Len(viewLog) : viewLog[i] = ViewMsg("out", type)}

\* the places of the stop actions and of the terminal messages
ReleasedAt ==
  {i \in 1..Len(viewLog) :
     \/ viewLog[i] = ViewMsg("out", "stopGeneration")
     \/ /\ viewLog[i].dir = "in"
        /\ viewLog[i].type \in {"hideTyping", "streamEnd", "error",
                                "responseStopped", "response"}}

\* the step posts a message of the type
Posts(type) ==
  /\ Len(viewLog') = Len(viewLog) + 1
  /\ viewLog'[Len(viewLog')] = ViewMsg("out", type)

\* C39: the webview posts sendMessage only when isGenerating and isTyping
\* are both false, a send action while isGenerating is true posts
\* stopGeneration instead, and between two posted sendMessage there is a
\* stop action or a terminal message of the extension
C39_OneSendAtATime ==
  /\ [][ /\ Posts("sendMessage") => (~isGenerating /\ ~isTyping)
         /\ \A value \in Texts :
              (ViewSendMessage(value) /\ isGenerating)
                => (Posts("stopGeneration") /\ ~isGenerating' /\ ~isTyping') ]_vars
  /\ [](\A i, j \in PostedAt("sendMessage") :
          i < j => \E k \in ReleasedAt : i < k /\ k < j)

\* a message was sent, the user stopped it, sent another, and the
\* extension ended that one
C39_Witness ==
  /\ Len(viewLog) = MaxEvents
  /\ viewLog[1] = ViewMsg("out", "sendMessage")
  /\ viewLog[2] = ViewMsg("out", "stopGeneration")
  /\ viewLog[3] = ViewMsg("out", "sendMessage")
  /\ viewLog[MaxEvents] = ViewMsg("in", "hideTyping")
  /\ ~isGenerating /\ ~isTyping

====
